---- MODULE Spec2Model ----
(***************************************************************************)
(* State-machine model of the winkerberos client security context:         *)
(* sspi_client_state and the functions of kerberos_sspi.c that act on it   *)
(* (init, step, unwrap, wrap, destroy), driven through the Python entry    *)
(* points of winkerberos.c.  The native security provider (SSPI) and the   *)
(* C allocator are the environment: each of their calls is a               *)
(* nondeterministic choice among the outcomes they can produce.            *)
(***************************************************************************)
EXTENDS Integers, Sequences, FiniteSets, TLC

(***************************************************************************)
(* Bounds of the model.                                                    *)
(***************************************************************************)
\* Python-level calls made on context objects in one behaviour.
MaxOps == 4
\* Context objects created in one behaviour.
MaxContexts == 2

(***************************************************************************)
(* C values.  A pointer is NULL or Ptr(v), so that a non-NULL pointer to   *)
(* an empty string differs from NULL.  Strings are sequences of            *)
(* one-character strings; byte buffers are sequences of 0..255.            *)
(***************************************************************************)
NULL == <<>>
Ptr(v) == <<v>>
Deref(p) == p[1]

AUTH_GSS_ERROR == "AUTH_GSS_ERROR"
AUTH_GSS_COMPLETE == "AUTH_GSS_COMPLETE"
AUTH_GSS_CONTINUE == "AUTH_GSS_CONTINUE"

SEC_E_OK == "SEC_E_OK"
SEC_I_CONTINUE_NEEDED == "SEC_I_CONTINUE_NEEDED"
\* Any failing SECURITY_STATUS of the provider.
SEC_E_FAILURE == "SEC_E_FAILURE"

\* Python exceptions the functions set.
NoError == <<"none", "">>
KrbErrorOf(msg) == <<"KrbError", msg>>
UninitializedContext == <<"KrbError", "Uninitialized security context">>
MemoryError == <<"MemoryError", "">>

\* PyErr_Format(PyExc_ValueError, "%s too large", key)
ValueTooLarge(key) == <<"ValueError", key>>

\* set_gsserror(res, msg)
GSSErrorOf(msg) == <<"GSSError", msg>>

(***************************************************************************)
(* Strings and their lengths.  A string an entry point receives is a       *)
(* record: chars, followed by pad * 2^32 further characters, none of them  *)
(* ':' or '%' (pad = 0 for every string of ordinary length).  A length     *)
(* (Py_ssize_t, SIZE_T) is 64 bits wide and is kept as its two 32-bit      *)
(* halves hi and lo; a ULONG is 32 bits wide.                              *)
(***************************************************************************)
Text(chars) == [chars |-> chars, pad |-> 0]

SizeOf(hi, lo) == [hi |-> hi, lo |-> lo]

\* strlen, wcslen, PyUnicode_GET_LENGTH
strlen(s) == SizeOf(s.pad, Len(s.chars))

\* len + k (no carry out of the low half for the lengths that occur).
SizeAdd(len, k) == SizeOf(len.hi, len.lo + k)

\* The cast (ULONG)len keeps the low 32 bits.
AsULONG(len) == len.lo

\* Variant of _string_too_long that accepts every length.
_string_too_long_never(key, len) == FALSE

\* _string_too_long: len > ULONG_MAX, that is, the high half is not zero.
_string_too_long(key, len) == len.hi > 0

(***************************************************************************)
(* base64_encode / base64_decode (base64.h): standard base64, no line      *)
(* wrapping; '=' padding.                                                  *)
(***************************************************************************)
B64Chars ==
  << "A","B","C","D","E","F","G","H","I","J","K","L","M","N","O","P",
     "Q","R","S","T","U","V","W","X","Y","Z","a","b","c","d","e","f",
     "g","h","i","j","k","l","m","n","o","p","q","r","s","t","u","v",
     "w","x","y","z","0","1","2","3","4","5","6","7","8","9","+","/" >>

B64Char(i) == B64Chars[i + 1]

B64Index(c) ==
  IF \E i \in 1..Len(B64Chars) : B64Chars[i] = c
  THEN (CHOOSE i \in 1..Len(B64Chars) : B64Chars[i] = c) - 1
  ELSE -1

RECURSIVE base64_text(_)
base64_text(b) ==
  IF Len(b) = 0 THEN <<>>
  ELSE IF Len(b) = 1 THEN
    << B64Char(b[1] \div 4), B64Char((b[1] % 4) * 16), "=", "=" >>
  ELSE IF Len(b) = 2 THEN
    << B64Char(b[1] \div 4), B64Char((b[1] % 4) * 16 + (b[2] \div 16)),
       B64Char((b[2] % 16) * 4), "=" >>
  ELSE
    << B64Char(b[1] \div 4), B64Char((b[1] % 4) * 16 + (b[2] \div 16)),
       B64Char((b[2] % 16) * 4 + (b[3] \div 64)), B64Char(b[3] % 64) >>
    \o base64_text(SubSeq(b, 4, Len(b)))

\* The result buffer is allocated: NULL when the allocation fails.
base64_encode(b, allocOk) == IF allocOk THEN Ptr(base64_text(b)) ELSE NULL

\* One group of four characters; <<-1>> marks a malformed group.
B64Group(q, isLast) ==
  LET i1 == B64Index(q[1])
      i2 == B64Index(q[2])
      i3 == B64Index(q[3])
      i4 == B64Index(q[4])
  IN IF i1 < 0 \/ i2 < 0 THEN << -1 >>
     ELSE IF q[3] = "=" THEN
       IF isLast /\ q[4] = "=" /\ i2 % 16 = 0
       THEN << i1 * 4 + (i2 \div 16) >>
       ELSE << -1 >>
     ELSE IF i3 < 0 THEN << -1 >>
     ELSE IF q[4] = "=" THEN
       IF isLast /\ i3 % 4 = 0
       THEN << i1 * 4 + (i2 \div 16), (i2 % 16) * 16 + (i3 \div 4) >>
       ELSE << -1 >>
     ELSE IF i4 < 0 THEN << -1 >>
     ELSE << i1 * 4 + (i2 \div 16), (i2 % 16) * 16 + (i3 \div 4),
             (i3 % 4) * 64 + i4 >>

RECURSIVE base64_bytes(_)
base64_bytes(s) ==
  IF Len(s) = 0 THEN <<>>
  ELSE IF Len(s) < 4 THEN << -1 >>
  ELSE LET g == B64Group(SubSeq(s, 1, 4), Len(s) = 4)
           r == base64_bytes(SubSeq(s, 5, Len(s)))
       IN IF g = << -1 >> \/ r = << -1 >> THEN << -1 >> ELSE g \o r

\* NULL on malformed input, else a pointer to the decoded bytes.
base64_decode(s) ==
  LET b == base64_bytes(s) IN IF b = << -1 >> THEN NULL ELSE Ptr(b)

(***************************************************************************)
(* Inputs of the model.                                                    *)
(***************************************************************************)
\* Handles the provider issues: one credential handle and one context
\* handle per context object; 0 stands for a handle field never written.
Handles == 0..MaxContexts

ISC_REQ_MUTUAL_AUTH == "ISC_REQ_MUTUAL_AUTH"
ISC_REQ_SEQUENCE_DETECT == "ISC_REQ_SEQUENCE_DETECT"
ISC_REQ_CONFIDENTIALITY == "ISC_REQ_CONFIDENTIALITY"

\* Arguments of authGSSClientInit.
InitArgs ==
  { [service |-> <<"s","@","h">>,
     flags |-> {ISC_REQ_MUTUAL_AUTH, ISC_REQ_SEQUENCE_DETECT},
     principal |-> NULL, user |-> NULL, domain |-> NULL, password |-> NULL],
    [service |-> <<"s","/","h","@","R">>,
     flags |-> {ISC_REQ_MUTUAL_AUTH, ISC_REQ_CONFIDENTIALITY},
     principal |-> NULL, user |-> NULL, domain |-> NULL, password |-> NULL] }

\* base64 texts a caller passes as challenge or data: empty, well-formed,
\* malformed.
Challenges == { <<>>, base64_text(<<9>>), <<"!">> }

\* Tokens the provider produces in the n-th call on a context object:
\* every non-empty one starts with the byte n, so that the output of one
\* call is never the output of another.
Tokens(n) == { <<>>, <<n, 200>> }

\* Names the provider reports for an authenticated principal.
Names == { "u@REALM", "admin@REALM" }

\* The user argument of authGSSClientWrap: NULL or the bytes of "u".
WrapUsers == { NULL, Ptr(<<117>>) }

\* SecPkgContext_Sizes the provider reports.
Sizes == { [cbSecurityTrailer |-> 2, cbBlockSize |-> 1] }

(***************************************************************************)
(* The security provider: the credential and context handles that are      *)
(* live, those it ever issued, and how often each was released.            *)
(***************************************************************************)
ProviderInit ==
  [ creds |-> {}, ctxs |-> {}, credsIssued |-> {}, ctxsIssued |-> {},
    credFrees |-> [h \in Handles |-> 0],
    ctxFrees |-> [h \in Handles |-> 0] ]

Call(fn, h, arg) == [fn |-> fn, h |-> h, arg |-> arg]

AcquireCredentialsHandle(pv, status, h) ==
  IF status = SEC_E_OK
  THEN [pv EXCEPT !.creds = @ \cup {h}, !.credsIssued = @ \cup {h}]
  ELSE pv

\* A first call (no existing context) that succeeds creates context h.
InitializeSecurityContext(pv, haveCtx, status, h) ==
  IF status \in {SEC_E_OK, SEC_I_CONTINUE_NEEDED} /\ haveCtx = 0
  THEN [pv EXCEPT !.ctxs = @ \cup {h}, !.ctxsIssued = @ \cup {h}]
  ELSE pv

DeleteSecurityContext(pv, h) ==
  [pv EXCEPT !.ctxs = @ \ {h}, !.ctxFrees[h] = @ + 1]

FreeCredentialsHandle(pv, h) ==
  [pv EXCEPT !.creds = @ \ {h}, !.credFrees[h] = @ + 1]

(***************************************************************************)
(* sspi_client_state                                                       *)
(***************************************************************************)
\* The struct as malloc returns it: every field holds whatever the memory
\* held (flags set, pointers non-NULL and dangling, handles meaningless).
Uninitialized ==
  [ cred |-> 0, ctx |-> 0, spn |-> Ptr(<<"?">>), response |-> Ptr(<<"?">>),
    username |-> Ptr("?"), flags |-> {}, haveCred |-> 1, haveCtx |-> 1,
    qop |-> "?" ]

\* Quality of protection: 0 (the message is encrypted) or
\* SECQOP_WRAP_NO_ENCRYPT (it is only signed).
SECQOP_WRAP_NO_ENCRYPT == "SECQOP_WRAP_NO_ENCRYPT"

SECQOP_ENCRYPT == "0"

QopValues == { SECQOP_ENCRYPT, SECQOP_WRAP_NO_ENCRYPT }

HasChar(s, c) == \E i \in 1..Len(s) : s[i] = c

FirstIndex(s, c) ==
  CHOOSE i \in 1..Len(s) : s[i] = c /\ \A j \in 1..(i - 1) : s[j] # c

\* Variant of ConvertSpn that does not look for a '/' first.
ConvertSpnAlways(s) ==
  IF HasChar(s, "@") THEN [s EXCEPT ![FirstIndex(s, "@")] = "/"] ELSE s

\* Convert RFC-2078 format to SPN.
ConvertSpn(s) ==
  IF ~HasChar(s, "/") /\ HasChar(s, "@")
  THEN [s EXCEPT ![FirstIndex(s, "@")] = "/"]
  ELSE s

\* What an operation hands back: the struct, the provider, the status it
\* returns, the exception it set and the provider calls it made, in order.
Outcome(st, pv, status, err, calls) ==
  [st |-> st, pv |-> pv, status |-> status, err |-> err, calls |-> calls]

(***************************************************************************)
(* auth_sspi_client_init.  env: dup (whether _strdup succeeds), acq (the   *)
(* status of AcquireCredentialsHandleA); h is the handle the provider      *)
(* issues.                                                                 *)
(***************************************************************************)
\* Variant of InitFields that leaves haveCred and haveCtx as malloc
\* returned them.
InitFieldsKeepsHandles(st, flags) ==
  [st EXCEPT !.response = NULL, !.username = NULL, !.flags = flags]

\* Variant of InitFields that leaves username as malloc returned it.
InitFieldsKeepsUsername(st, flags) ==
  [st EXCEPT !.response = NULL, !.flags = flags, !.haveCred = 0,
             !.haveCtx = 0]

\* The first assignments of auth_sspi_client_init.
InitFields(st, flags) ==
  [st EXCEPT !.response = NULL, !.username = NULL, !.flags = flags,
             !.haveCred = 0, !.haveCtx = 0]

\* authIdentity: filled in only when user is given; domain and password
\* only when they are given too.
AuthIdentity(user, domain, password) ==
  IF user = NULL THEN NULL
  ELSE Ptr([ User |-> user,
             UserLength |-> AsULONG(strlen(Deref(user))),
             Domain |-> domain,
             DomainLength |-> IF domain = NULL THEN 0
                              ELSE AsULONG(strlen(Deref(domain))),
             Password |-> password,
             PasswordLength |-> IF password = NULL THEN 0
                                ELSE AsULONG(strlen(Deref(password))) ])

\* a: service, principal, flags, user, domain, password.
auth_sspi_client_init(a, pv, env, h) ==
  LET s0 == InitFields(Uninitialized, a.flags)
      acq == Call("AcquireCredentialsHandle", 0,
                  Ptr([ pszPrincipal |-> a.principal,
                        pAuthData |->
                          AuthIdentity(a.user, a.domain, a.password) ]))
  IN IF ~env.dup
     THEN Outcome([s0 EXCEPT !.spn = NULL], pv, AUTH_GSS_ERROR, MemoryError,
                  <<>>)
     ELSE LET s1 == [s0 EXCEPT !.spn = Ptr(ConvertSpn(a.service))]
          IN IF env.acq # SEC_E_OK
             THEN Outcome(s1, AcquireCredentialsHandle(pv, env.acq, h),
                          AUTH_GSS_ERROR,
                          KrbErrorOf("AcquireCredentialsHandle"), <<acq>>)
             ELSE Outcome([s1 EXCEPT !.cred = h, !.haveCred = 1],
                          AcquireCredentialsHandle(pv, env.acq, h),
                          AUTH_GSS_COMPLETE, NoError, <<acq>>)

\* malloc: whether the struct can be allocated; wdup: whether _wcsdup
\* succeeds; esc: what UrlUnescapeW returns.
InitEnv(dup, acq) ==
  [dup |-> dup, acq |-> acq, malloc |-> TRUE, wdup |-> TRUE, esc |-> "S_OK"]

InitEnvs ==
  { InitEnv(FALSE, SEC_E_OK) }
  \cup { InitEnv(TRUE, s) : s \in {SEC_E_OK, SEC_E_FAILURE} }

(***************************************************************************)
(* auth_sspi_client_step.  env: isc (status of InitializeSecurityContextA),*)
(* tok (its output token), enc (whether base64_encode can allocate), qca   *)
(* (status of QueryContextAttributes), name (the name it reports), dup     *)
(* (whether _strdup succeeds).                                             *)
(***************************************************************************)
\* Variant of FreeResponse that leaves the previous response in place.
FreeResponseSkipped(st) == st

\* if (state->response != NULL) { free(state->response);
\* state->response = NULL; } -- the first statement of step, unwrap, wrap.
FreeResponse(st) == [st EXCEPT !.response = NULL]

\* Variant of IscFailed that takes every status for a success.
IscFailedNever(isc) == FALSE

\* status != SEC_E_OK && status != SEC_I_CONTINUE_NEEDED
IscFailed(isc) == isc # SEC_E_OK /\ isc # SEC_I_CONTINUE_NEEDED

\* Variant of StepError that also gives up the credential handle.
StepErrorFreesCred(st, pv, msg, calls) ==
  Outcome([st EXCEPT !.haveCred = 0], FreeCredentialsHandle(pv, st.cred),
          AUTH_GSS_ERROR, KrbErrorOf(msg), calls)

\* Variant of StepError that marks the context handle absent.
StepErrorDropsCtx(st, pv, msg, calls) ==
  Outcome([st EXCEPT !.haveCtx = 0], pv, AUTH_GSS_ERROR, KrbErrorOf(msg),
          calls)

\* set_krberror(status, msg); status = AUTH_GSS_ERROR; goto done;
StepError(st, pv, msg, calls) ==
  Outcome(st, pv, AUTH_GSS_ERROR, KrbErrorOf(msg), calls)

\* if (outBufs[0].cbBuffer) state->response = base64_encode(...);
StoreResponse(st, tok, enc) ==
  IF Len(tok) # 0
  THEN [st EXCEPT !.response = base64_encode(tok, enc)]
  ELSE st

\* Variant of IscComplete that takes "continue needed" for completion too.
IscCompleteAlways(isc) == TRUE

\* if (status == SEC_E_OK): the handshake is complete, get the username.
IscComplete(isc) == isc = SEC_E_OK

\* Variant of StepInput that decodes the challenge on every step.
StepInputAlways(st, challenge) == base64_decode(challenge)

\* inBufs[0].pvBuffer: NULL, and base64_decode(challenge, &len) only
\* if (state->haveCtx).
StepInput(st, challenge) ==
  IF st.haveCtx = 1 THEN base64_decode(challenge) ELSE NULL

auth_sspi_client_step(st, pv, challenge, env) ==
  LET s0 == FreeResponse(st)
      inBuf == StepInput(st, challenge)
      isc == Call("InitializeSecurityContext",
                  IF st.haveCtx = 1 THEN st.ctx ELSE 0, inBuf)
      pv1 == InitializeSecurityContext(pv, st.haveCtx, env.isc, st.cred)
  IN IF IscFailed(env.isc)
     THEN StepError(s0, pv1, "InitializeSecurityContext", <<isc>>)
     ELSE
       LET s1 == [s0 EXCEPT !.haveCtx = 1,
                            !.ctx = IF st.haveCtx = 1 THEN st.ctx ELSE st.cred]
           s2 == StoreResponse(s1, env.tok, env.enc)
           qca == Call("QueryContextAttributes", s2.ctx,
                       Ptr("SECPKG_ATTR_NAMES"))
       IN IF IscComplete(env.isc)
          THEN IF env.qca # SEC_E_OK
               THEN StepError(s2, pv1, "QueryContextAttributes",
                              <<isc, qca>>)
               ELSE IF ~env.dup
               THEN Outcome([s2 EXCEPT !.username = NULL], pv1,
                            AUTH_GSS_ERROR, MemoryError, <<isc, qca>>)
               ELSE Outcome([s2 EXCEPT !.username = Ptr(env.name)], pv1,
                            AUTH_GSS_COMPLETE, NoError, <<isc, qca>>)
          ELSE Outcome(s2, pv1, AUTH_GSS_CONTINUE, NoError, <<isc>>)

StepEnv(isc, tok, enc, qca, name, dup) ==
  [isc |-> isc, tok |-> tok, enc |-> enc, qca |-> qca, name |-> name,
   dup |-> dup]

\* The token with base64_encode succeeding, and each non-empty token with
\* it failing.
TokenEnvs(n) ==
  { <<t, TRUE>> : t \in Tokens(n) }
  \cup { <<t, FALSE>> : t \in Tokens(n) \ { <<>> } }

StepEnvs(n) ==
  { StepEnv(SEC_E_FAILURE, <<>>, TRUE, SEC_E_OK, "u@REALM", TRUE) }
  \cup { StepEnv(SEC_I_CONTINUE_NEEDED, te[1], te[2], SEC_E_OK, "u@REALM",
                 TRUE) : te \in TokenEnvs(n) }
  \cup { StepEnv(SEC_E_OK, te[1], te[2], SEC_E_OK, "u@REALM", TRUE) :
         te \in TokenEnvs(n) }
  \cup { StepEnv(SEC_E_OK, <<n, 200>>, TRUE, SEC_E_OK, nm, TRUE) :
         nm \in Names }
  \cup { StepEnv(SEC_E_OK, <<n, 200>>, TRUE, SEC_E_OK, "u@REALM", FALSE),
         StepEnv(SEC_E_OK, <<n, 200>>, TRUE, SEC_E_FAILURE, "u@REALM", TRUE) }

(***************************************************************************)
(* auth_sspi_client_unwrap.  env: dec (status of DecryptMessage), data     *)
(* (the plaintext the provider returns), enc (whether base64_encode can    *)
(* allocate).  DecryptMessage is called with NULL for pfQOP, so the        *)
(* provider hands no quality of protection back.                           *)
(***************************************************************************)
\* Variant of UnwrapRejects that lets every context through.
UnwrapRejectsNever(st) == FALSE

\* if (!state->haveCtx) { set_uninitialized_context(); return ...; }
UnwrapRejects(st) == st.haveCtx = 0

auth_sspi_client_unwrap(st, pv, challenge, env) ==
  LET s0 == FreeResponse(st)
      dec == Call("DecryptMessage", st.ctx, base64_decode(challenge))
  IN IF UnwrapRejects(st)
     THEN Outcome(s0, pv, AUTH_GSS_ERROR, UninitializedContext, <<>>)
     ELSE IF env.dec # SEC_E_OK
     THEN Outcome(s0, pv, AUTH_GSS_ERROR, KrbErrorOf("DecryptMessage"),
                  <<dec>>)
     ELSE IF Len(env.data) # 0
     THEN Outcome([s0 EXCEPT !.response = base64_encode(env.data, env.enc)],
                  pv, AUTH_GSS_COMPLETE, NoError, <<dec>>)
     ELSE Outcome(s0, pv, AUTH_GSS_COMPLETE, NoError, <<dec>>)

\* qop: whether the message DecryptMessage was given had been encrypted.
UnwrapEnvs(n) ==
  { [dec |-> SEC_E_FAILURE, data |-> <<>>, enc |-> TRUE,
     qop |-> SECQOP_WRAP_NO_ENCRYPT] }
  \cup { [dec |-> SEC_E_OK, data |-> te[1], enc |-> te[2],
          qop |-> SECQOP_WRAP_NO_ENCRYPT] : te \in TokenEnvs(n) }
  \cup { [dec |-> SEC_E_OK, data |-> <<n, 200>>, enc |-> TRUE,
          qop |-> SECQOP_ENCRYPT] }

(***************************************************************************)
(* auth_sspi_client_wrap.  env: qca (status of QueryContextAttributes),    *)
(* sizes (the sizes it reports), inbuf / outbuf (whether each malloc       *)
(* succeeds), encrypt (status of EncryptMessage), trailer / padding (the   *)
(* bytes the provider leaves in those two buffers, within their            *)
(* capacities), enc (whether base64_encode can allocate), junk (what       *)
(* memory holds where the code reads without having written).              *)
(***************************************************************************)
\* Variant of PlaintextMessage that decodes data when a user is given too.
PlaintextMessageOfData(data, user, junk) ==
  IF base64_decode(data) = NULL THEN junk ELSE Deref(base64_decode(data))

\* plaintextMessage: the authorization message for user, or the decoded
\* data.  The result of base64_decode is copied unchecked: when it is NULL
\* the bytes and their number are whatever memory holds, junk.
PlaintextMessage(data, user, junk) ==
  IF user # NULL
  THEN <<1, 0, 0, 0>> \o Deref(user)
  ELSE IF base64_decode(data) = NULL THEN junk
       ELSE Deref(base64_decode(data))

\* Variant of WrapRejects that lets every context through.
WrapRejectsNever(st) == FALSE

\* if (!state->haveCtx) { set_uninitialized_context(); return ...; }
WrapRejects(st) == st.haveCtx = 0

\* Variant of WrapOutbuf that puts the payload in front of the trailer.
WrapOutbufPayloadFirst(trailer, msg, padding) == msg \o trailer \o padding

\* outbuf: the three memcpy calls copy wrapBufs[0] (the trailer), wrapBufs[1]
\* (the payload) and wrapBufs[2] (the padding), each with the byte count
\* the provider left in cbBuffer, one behind the other.
WrapOutbuf(trailer, msg, padding) == trailer \o msg \o padding

\* inbuf = malloc(sizes.cbSecurityTrailer + plaintextMessageSize
\*                + sizes.cbBlockSize)
InbufSize(sizes, msg) ==
  sizes.cbSecurityTrailer + Len(msg) + sizes.cbBlockSize

\* Variant of WrapBufs that starts the padding buffer where the payload
\* starts.
WrapBufsPaddingAtPayload(sizes, msg) ==
  << [off |-> 0, cb |-> sizes.cbSecurityTrailer],
     [off |-> sizes.cbSecurityTrailer, cb |-> Len(msg)],
     [off |-> sizes.cbSecurityTrailer, cb |-> sizes.cbBlockSize] >>

\* wrapBufs[0], wrapBufs[1], wrapBufs[2] as handed to EncryptMessage: off
\* is where pvBuffer points, counted from inbuf, and cb is cbBuffer.
WrapBufs(sizes, msg) ==
  << [off |-> 0, cb |-> sizes.cbSecurityTrailer],
     [off |-> sizes.cbSecurityTrailer, cb |-> Len(msg)],
     [off |-> sizes.cbSecurityTrailer + Len(msg), cb |-> sizes.cbBlockSize] >>

auth_sspi_client_wrap(st, pv, data, user, env) ==
  LET s0 == FreeResponse(st)
      qca == Call("QueryContextAttributes", st.ctx, Ptr("SECPKG_ATTR_SIZES"))
      msg == PlaintextMessage(data, user, env.junk)
      encrypt == Call("EncryptMessage", st.ctx,
                      Ptr([qop |-> "SECQOP_WRAP_NO_ENCRYPT",
                           token |-> env.sizes.cbSecurityTrailer,
                           data |-> msg,
                           padding |-> env.sizes.cbBlockSize,
                           inbuf |-> InbufSize(env.sizes, msg),
                           bufs |-> WrapBufs(env.sizes, msg)]))
      outbuf == WrapOutbuf(env.trailer, msg, env.padding)
  IN IF WrapRejects(st)
     THEN Outcome(s0, pv, AUTH_GSS_ERROR, UninitializedContext, <<>>)
     ELSE IF env.qca # SEC_E_OK
     THEN Outcome(s0, pv, AUTH_GSS_ERROR,
                  KrbErrorOf("QueryContextAttributes"), <<qca>>)
     ELSE IF ~env.inbuf
     THEN Outcome(s0, pv, AUTH_GSS_ERROR, MemoryError, <<qca>>)
     ELSE IF env.encrypt # SEC_E_OK
     THEN Outcome(s0, pv, AUTH_GSS_ERROR, KrbErrorOf("EncryptMessage"),
                  <<qca, encrypt>>)
     ELSE IF ~env.outbuf
     THEN Outcome(s0, pv, AUTH_GSS_ERROR, MemoryError, <<qca, encrypt>>)
     ELSE Outcome([s0 EXCEPT !.response = base64_encode(outbuf, env.enc)],
                  pv, AUTH_GSS_COMPLETE, NoError, <<qca, encrypt>>)

\* The trailer the provider writes in the n-th call starts with the byte n.
Trailers(n, z) == { <<n>> \o [i \in 1..(z.cbSecurityTrailer - 1) |-> 77] }

Paddings(z) == { [i \in 1..k |-> 0] : k \in {0, z.cbBlockSize} }

WrapOk(z, t, p, e) ==
  [qca |-> SEC_E_OK, sizes |-> z, inbuf |-> TRUE, encrypt |-> SEC_E_OK,
   trailer |-> t, padding |-> p, outbuf |-> TRUE, enc |-> e, junk |-> <<>>]

WrapEnvs(n) ==
  LET z0 == CHOOSE z \in Sizes : TRUE
      ok0 == [WrapOk(z0, <<>>, <<>>, TRUE) EXCEPT !.junk = <<66>>]
  IN { [ok0 EXCEPT !.qca = SEC_E_FAILURE], [ok0 EXCEPT !.inbuf = FALSE],
       [ok0 EXCEPT !.encrypt = SEC_E_FAILURE], [ok0 EXCEPT !.outbuf = FALSE] }
     \cup UNION { { WrapOk(z, t, p, e) :
                    t \in Trailers(n, z), p \in Paddings(z), e \in BOOLEAN } :
                  z \in Sizes }

\* The data, user and protect arguments of authGSSClientWrap.
WrapArgs ==
  { <<d, NULL, 0>> : d \in Challenges }
  \cup { <<d, u, 0>> : d \in Challenges \ { <<>> }, u \in WrapUsers \ {NULL} }
  \cup { << base64_text(<<9>>), NULL, 1 >> }

(***************************************************************************)
(* destroy_sspi_client_state, one block of the function per label:         *)
(* "d_ctx" releases the context handle, "d_cred" the credential handle,    *)
(* "d_bufs" frees spn, response and username; "d_done" is the return.      *)
(***************************************************************************)
DestroyCtxBlock(st, pv) ==
  IF st.haveCtx = 1
  THEN [st |-> [st EXCEPT !.haveCtx = 0],
        pv |-> DeleteSecurityContext(pv, st.ctx),
        calls |-> << Call("DeleteSecurityContext", st.ctx, NULL) >>]
  ELSE [st |-> st, pv |-> pv, calls |-> <<>>]

\* Variant of DestroyCredBlock that leaves haveCred set.
DestroyCredBlockKeepsFlag(st, pv) ==
  IF st.haveCred = 1
  THEN [st |-> st,
        pv |-> FreeCredentialsHandle(pv, st.cred),
        calls |-> << Call("FreeCredentialsHandle", st.cred, NULL) >>]
  ELSE [st |-> st, pv |-> pv, calls |-> <<>>]

DestroyCredBlock(st, pv) ==
  IF st.haveCred = 1
  THEN [st |-> [st EXCEPT !.haveCred = 0],
        pv |-> FreeCredentialsHandle(pv, st.cred),
        calls |-> << Call("FreeCredentialsHandle", st.cred, NULL) >>]
  ELSE [st |-> st, pv |-> pv, calls |-> <<>>]

FreeIf(p, field) ==
  IF p # NULL THEN << Call("free", 0, Ptr(field)) >> ELSE <<>>

DestroyBufsBlock(st, pv) ==
  [st |-> [st EXCEPT !.spn = NULL, !.response = NULL, !.username = NULL],
   pv |-> pv,
   calls |-> FreeIf(st.spn, "spn") \o FreeIf(st.response, "response")
             \o FreeIf(st.username, "username")]

\* Variant of destroy_sspi_client_state that releases the credential
\* handle first.
destroy_sspi_client_state_cred_first(st, pv, label) ==
  CASE label = "d_ctx" -> [next |-> "d_cred"] @@ DestroyCredBlock(st, pv)
    [] label = "d_cred" -> [next |-> "d_bufs"] @@ DestroyCtxBlock(st, pv)
    [] label = "d_bufs" -> [next |-> "d_done"] @@ DestroyBufsBlock(st, pv)

destroy_sspi_client_state(st, pv, label) ==
  CASE label = "d_ctx" -> [next |-> "d_cred"] @@ DestroyCtxBlock(st, pv)
    [] label = "d_cred" -> [next |-> "d_bufs"] @@ DestroyCredBlock(st, pv)
    [] label = "d_bufs" -> [next |-> "d_done"] @@ DestroyBufsBlock(st, pv)

(***************************************************************************)
(* The Python entry points of winkerberos.c that read the context.         *)
(***************************************************************************)
\* authGSSClientResponse: Py_BuildValue("s", state->response).
sspi_client_response(st) == st.response

\* authGSSClientUsername: Py_BuildValue("s", state->username).
sspi_client_username(st) == st.username

(***************************************************************************)
(* sspi_client_init (authGSSClientInit).                                   *)
(***************************************************************************)
\* wcstok_s(s, L":", &next): skips leading ':' characters; no token when
\* nothing follows them; else the token runs up to the next ':' (which is
\* overwritten) or to the end of the string, and next is what follows.
RECURSIVE wcstok_s(_)
wcstok_s(s) ==
  IF s.chars # <<>> /\ Head(s.chars) = ":"
  THEN wcstok_s([s EXCEPT !.chars = Tail(s.chars)])
  ELSE IF s.chars = <<>> /\ s.pad = 0
  THEN [tok |-> NULL, next |-> s]
  ELSE IF HasChar(s.chars, ":")
  THEN LET k == FirstIndex(s.chars, ":")
       IN [tok |-> Ptr(Text(SubSeq(s.chars, 1, k - 1))),
           next |-> [s EXCEPT !.chars = SubSeq(s.chars, k + 1, Len(s.chars))]]
  ELSE [tok |-> Ptr(s), next |-> Text(<<>>)]

\* The characters some escape sequences %XX stand for.
Unescaped(h1, h2) ==
  CASE h1 = "3" /\ h2 \in {"A", "a"} -> ":"
    [] h1 = "2" /\ h2 = "5" -> "%"
    [] h1 = "4" /\ h2 = "0" -> "@"
    [] OTHER -> "?"

IsEscape(c, i) ==
  /\ i + 2 <= Len(c) /\ c[i] = "%"
  /\ << c[i + 1], c[i + 2] >> \in
       { <<"3","A">>, <<"3","a">>, <<"2","5">>, <<"4","0">> }

\* UrlUnescapeW(s, NULL, NULL, URL_UNESCAPE_INPLACE): every escape sequence
\* is replaced by its character.
RECURSIVE UrlUnescapeChars(_)
UrlUnescapeChars(c) ==
  IF c = <<>> THEN <<>>
  ELSE IF IsEscape(c, 1)
  THEN << Unescaped(c[2], c[3]) >> \o UrlUnescapeChars(SubSeq(c, 4, Len(c)))
  ELSE << Head(c) >> \o UrlUnescapeChars(Tail(c))

UrlUnescapeW(s) == [s EXCEPT !.chars = UrlUnescapeChars(s.chars)]

Credentials(user, domain, password, e) ==
  [user |-> user, domain |-> domain, password |-> password, err |-> e]

\* Variant of UsesPrincipal that takes the principal whenever there is one.
UsesPrincipalAlways(user, principal) == principal # NULL

\* if (!user && principal)
UsesPrincipal(user, principal) == user = NULL /\ principal # NULL

\* Variant of PrincipalCredentials that stops looking for ':' after the
\* first one: the password is all that follows it.
PrincipalCredentialsRest(principal, domain, password, env) ==
  LET c == principal.chars
      k == FirstIndex(c, ":")
  IN IF HasChar(c, ":")
     THEN Credentials(Ptr(UrlUnescapeW(Text(SubSeq(c, 1, k - 1)))), NULL,
                      Ptr(UrlUnescapeW(Text(SubSeq(c, k + 1, Len(c))))),
                      NoError)
     ELSE Credentials(Ptr(UrlUnescapeW(principal)), NULL, NULL, NoError)

\* Variant of PrincipalCredentials that keeps the domain and the password
\* the caller gave when the principal carries no password.
PrincipalCredentialsKeeps(principal, domain, password, env) ==
  Credentials(Ptr(UrlUnescapeW(principal)), domain, password, NoError)

\* The block under if (!user && principal): domain and password are freed,
\* user and password are taken from the principal and unescaped.
PrincipalCredentials(principal, domain, password, env) ==
  LET first == wcstok_s(principal)
      second == wcstok_s(first.next)
      failed(e) == Credentials(NULL, NULL, NULL, e)
  IN IF HasChar(principal.chars, ":")
     THEN IF first.tok = NULL \/ ~env.wdup \/ second.tok = NULL
          THEN failed(MemoryError)
          ELSE IF env.esc # "S_OK"
          THEN failed(GSSErrorOf("UrlUnescapeW"))
          ELSE Credentials(Ptr(UrlUnescapeW(Deref(first.tok))), NULL,
                           Ptr(UrlUnescapeW(Deref(second.tok))), NoError)
     ELSE IF ~env.wdup
          THEN failed(MemoryError)
          ELSE IF env.esc # "S_OK"
          THEN failed(GSSErrorOf("UrlUnescapeW"))
          ELSE Credentials(Ptr(UrlUnescapeW(principal)), NULL, NULL, NoError)

\* A failure before the struct is allocated: no context object.
NoContext(p, e) ==
  [made |-> FALSE] @@ Outcome(Uninitialized, p, AUTH_GSS_ERROR, e, <<>>)

LengthOf(x) == IF x = NULL THEN SizeOf(0, 0) ELSE strlen(Deref(x))

\* a: service, principal, flags, user, domain, password as the caller
\* passed them.  The call of auth_sspi_client_init passes service, flags,
\* user, domain and password (with their lengths) and no principal.
sspi_client_init(a, p, env, h) ==
  LET c == IF UsesPrincipal(a.user, a.principal)
           THEN PrincipalCredentials(Deref(a.principal), a.domain,
                                     a.password, env)
           ELSE Credentials(a.user, a.domain, a.password, NoError)
  IN IF _string_too_long("user", LengthOf(a.user))
     THEN NoContext(p, ValueTooLarge("user"))
     ELSE IF _string_too_long("domain", LengthOf(a.domain))
     THEN NoContext(p, ValueTooLarge("domain"))
     ELSE IF _string_too_long("password", LengthOf(a.password))
     THEN NoContext(p, ValueTooLarge("password"))
     ELSE IF c.err # NoError
     THEN NoContext(p, c.err)
     ELSE IF ~env.malloc
     THEN NoContext(p, MemoryError)
     ELSE [made |-> TRUE]
          @@ auth_sspi_client_init(
               [service |-> a.service, principal |-> NULL, flags |-> a.flags,
                user |-> c.user, domain |-> c.domain,
                password |-> c.password], p, env, h)

(***************************************************************************)
(* The buffers with secret content that an entry point frees, in the       *)
(* order it frees them: which buffer, how many characters (bytes) it was   *)
(* allocated for, and how many of them SecureZeroMemory overwrote before   *)
(* free.                                                                   *)
(***************************************************************************)
Release(buf, size, zeroed) == [buf |-> buf, size |-> size, zeroed |-> zeroed]

\* Whether sspi_client_init leaves by the length checks.
InitArgTooLong(a) ==
  \/ _string_too_long("user", LengthOf(a.user))
  \/ _string_too_long("domain", LengthOf(a.domain))
  \/ _string_too_long("password", LengthOf(a.password))

\* password and plen at the label done of sspi_client_init.  plen is the
\* length of the password argument (0 for None) until the line
\* plen = wcslen(password), which is reached only after both UrlUnescapeW
\* calls succeeded; the password cut out of the principal is a _wcsdup of
\* the second token.
PasswordAtDone(a, env) ==
  LET given == LengthOf(a.password)
      first == wcstok_s(Deref(a.principal))
      second == wcstok_s(first.next)
  IN IF InitArgTooLong(a) \/ ~UsesPrincipal(a.user, a.principal)
     THEN [buf |-> a.password, plen |-> given]
     ELSE IF \/ ~HasChar(Deref(a.principal).chars, ":")
             \/ first.tok = NULL \/ ~env.wdup \/ second.tok = NULL
     THEN [buf |-> NULL, plen |-> given]
     ELSE IF env.esc # "S_OK"
     THEN [buf |-> second.tok, plen |-> given]
     ELSE [buf |-> second.tok,
           plen |-> strlen(UrlUnescapeW(Deref(second.tok)))]

\* sspi_client_init: the password argument freed under
\* if (!user && principal), then, at done, principal and password.
InitSecretFrees(a, env) ==
  LET pw == PasswordAtDone(a, env)
  IN (IF /\ ~InitArgTooLong(a) /\ UsesPrincipal(a.user, a.principal)
         /\ a.password # NULL
      THEN << Release("password", LengthOf(a.password),
                      LengthOf(a.password)) >>
      ELSE <<>>)
     \o (IF a.principal # NULL
         THEN << Release("principal", LengthOf(a.principal),
                         LengthOf(a.principal)) >>
         ELSE <<>>)
     \o (IF pw.buf # NULL
         THEN << Release("password", LengthOf(pw.buf), pw.plen) >>
         ELSE <<>>)

\* auth_sspi_client_unwrap: the decoded challenge, which DecryptMessage
\* decrypts in place, is freed at done.
UnwrapSecretFrees(st, challenge, env) ==
  IF UnwrapRejects(st) \/ base64_decode(challenge) = NULL THEN <<>>
  ELSE << Release("wrapBufs[0].pvBuffer",
                  SizeOf(0, Len(Deref(base64_decode(challenge)))),
                  SizeOf(0, 0)) >>

\* auth_sspi_client_wrap: decodedData, inbuf and outbuf.
WrapSecretFrees(st, data, user, env) ==
  LET msg == PlaintextMessage(data, user, env.junk)
      decoded == IF user = NULL /\ base64_decode(data) # NULL
                 THEN << Release("decodedData", SizeOf(0, Len(msg)),
                                 SizeOf(0, 0)) >>
                 ELSE <<>>
      inbuf == << Release("inbuf",
                          SizeOf(0, env.sizes.cbSecurityTrailer + Len(msg)
                                      + env.sizes.cbBlockSize),
                          SizeOf(0, 0)) >>
      outbuf == << Release("outbuf",
                           SizeOf(0, Len(WrapOutbuf(env.trailer, msg,
                                                    env.padding))),
                           SizeOf(0, 0)) >>
  IN IF WrapRejects(st) \/ env.qca # SEC_E_OK THEN <<>>
     ELSE IF ~env.inbuf THEN decoded
     ELSE IF env.encrypt # SEC_E_OK \/ ~env.outbuf THEN decoded \o inbuf
     ELSE decoded \o inbuf \o outbuf

\* authGSSClientResponseConf:
\* Py_BuildValue("i", state->qop != SECQOP_WRAP_NO_ENCRYPT).  A qop field
\* that was never written holds whatever the memory held: mem.
sspi_client_response_conf(st, mem) ==
  LET qop == IF st.qop = "?" THEN mem ELSE st.qop
  IN IF qop # SECQOP_WRAP_NO_ENCRYPT THEN "1" ELSE "0"

\* The characters of an optional string argument.
CharsOf(x) == IF x = NULL THEN NULL ELSE Ptr(Deref(x).chars)

\* An entry point fails on an argument: nothing is called and the struct
\* is not touched.
Refused(st, p, e) == Outcome(st, p, AUTH_GSS_ERROR, e, <<>>)

\* authGSSClientStep
sspi_client_step(st, p, challenge, env) ==
  IF _string_too_long("challenge", strlen(challenge))
  THEN Refused(st, p, ValueTooLarge("challenge"))
  ELSE auth_sspi_client_step(st, p, challenge.chars, env)

\* authGSSClientUnwrap
sspi_client_unwrap(st, p, challenge, env) ==
  IF _string_too_long("challenge", strlen(challenge))
  THEN Refused(st, p, ValueTooLarge("challenge"))
  ELSE auth_sspi_client_unwrap(st, p, challenge.chars, env)

\* authGSSClientWrap.  protect is passed along, and auth_sspi_client_wrap
\* (state, data, user) has no parameter that takes it.
sspi_client_wrap(st, p, data, user, protect, env) ==
  IF _string_too_long("data", strlen(data))
  THEN Refused(st, p, ValueTooLarge("data"))
  ELSE IF _string_too_long("user", SizeAdd(LengthOf(user), 4))
  THEN Refused(st, p, ValueTooLarge("user"))
  ELSE auth_sspi_client_wrap(st, p, data.chars, CharsOf(user), env)

\* Variant of sspi_client_clean that releases the stored response.
sspi_client_clean_frees(st, pv) ==
  Outcome(FreeResponse(st), pv, AUTH_GSS_COMPLETE, NoError, <<>>)

\* authGSSClientClean does nothing and returns AUTH_GSS_COMPLETE.
sspi_client_clean(st, pv) ==
  Outcome(st, pv, AUTH_GSS_COMPLETE, NoError, <<>>)

(***************************************************************************)
(* State of the model.                                                     *)
(*   state   the sspi_client_state of the current context object           *)
(*   alloc   "none": no context object; "live": the struct is allocated    *)
(*   pv      the security provider                                         *)
(*   nctx    context objects created so far                                *)
(*   pc      "idle" between calls, else the label destroy is at            *)
(*   dealloc whether the running destroy was entered from the capsule      *)
(*           destructor destroy_sspi_client, which frees the struct        *)
(*   nops    calls made so far                                             *)
(*   lastOp, status, err, calls, lastEnv                                   *)
(*           the last call: which, what it returned, the exception it      *)
(*           set, the provider and free calls it made, what the            *)
(*           environment answered                                          *)
(*   hist    what has happened on the current context object               *)
(*   prev    the call before the last one and what it returned, and the    *)
(*           struct as the last call found it                              *)
(*   args    the arguments of the last call                                *)
(*   thr     per Python thread, where it is inside a call on the context   *)
(*           object and the locals of that call                            *)
(*   gil     the thread that holds the global interpreter lock (0: none)   *)
(*   srv     the server context object: its struct, and the last call on   *)
(*           it with what the call returned                                *)
(***************************************************************************)
VARIABLES state, alloc, pv, nctx, pc, dealloc, nops, lastOp, status, err,
          calls, lastEnv, hist, prev, args, thr, gil, srv

vars == << state, alloc, pv, nctx, pc, dealloc, nops, lastOp, status, err,
           calls, lastEnv, hist, prev, args, thr, gil, srv >>

\* Python threads that share the context object.
NThreads == 2

Threads == 1..NThreads

NoArgs == [none |-> TRUE]

\* A thread outside every call.  Inside one: pc is where it is, ch the
\* challenge it was called with, inBuf the decoded challenge, env what the
\* provider answered, calls the provider calls made so far.
IdleThread ==
  [pc |-> "idle", ch |-> <<>>, inBuf |-> NULL, env |-> [none |-> TRUE],
   calls |-> <<>>]

NoEnv == [none |-> TRUE]

\* No server context object, and no call made on one.  st is the
\* sspi_server_state struct, here before auth_sspi_server_init has run;
\* phase is where the handshake of section 4.4 stands.  ret is what the
\* entry point handed to Python: "NULL" (the pending exception is raised)
\* or the status.
NoServer ==
  [st |-> [haveCred |-> 0, haveCtx |-> 0, phase |-> "Uninitialized",
           spn |-> NULL, response |-> NULL, username |-> NULL],
   op |-> "none", status |-> "none", err |-> NoError, ret |-> "none",
   calls |-> <<>>]

\* History of a fresh context object.  acquired: the credential handle
\* init acquired (0: none); stepped: a step was called; iscOk: an
\* InitializeSecurityContext call succeeded; stepOk: a step returned
\* Continue or Complete; completed: a step returned Complete; failAt: the
\* number of the first step in which a provider call failed (0: none);
\* destroys: destroy calls begun.
\* unwrapQop: whether the message of the last successful unwrap had been
\* encrypted ("none": no unwrap succeeded).
NoHist ==
  [ acquired |-> 0, stepped |-> FALSE, iscOk |-> FALSE, stepOk |-> FALSE,
    completed |-> FALSE, failAt |-> 0, destroys |-> 0, unwrapQop |-> "none" ]

Init ==
  /\ state = Uninitialized
  /\ alloc = "none"
  /\ pv = ProviderInit
  /\ nctx = 0
  /\ pc = "idle"
  /\ dealloc = FALSE
  /\ nops = 0
  /\ lastOp = "none"
  /\ status = "none"
  /\ err = NoError
  /\ calls = <<>>
  /\ lastEnv = NoEnv
  /\ hist = NoHist
  /\ prev = [op |-> "none", status |-> "none", st |-> Uninitialized]
  /\ args = NoArgs
  /\ thr = [t \in Threads |-> IdleThread]
  /\ gil = 0
  /\ srv = NoServer

\* A call on the context object can start: the object exists, no call is
\* running, and it has not been destroyed.
Usable == alloc = "live" /\ pc = "idle" /\ hist.destroys = 0 /\ nops < MaxOps

\* The return of a call: its effects and what it hands back.
Finished(op, o, env) ==
  /\ state' = o.st
  /\ pv' = o.pv
  /\ nops' = nops + 1
  /\ lastOp' = op
  /\ status' = o.status
  /\ err' = o.err
  /\ calls' = o.calls
  /\ lastEnv' = env
  /\ prev' = [op |-> lastOp, status |-> status, st |-> state]
  /\ srv' = srv

\* A call that runs from entry to return with the interpreter lock held.
Returned(op, o, env) ==
  /\ Finished(op, o, env)
  /\ UNCHANGED << thr, gil >>

\* sspi_client_init: malloc the struct, wrap it in a capsule whose
\* destructor is destroy_sspi_client, call auth_sspi_client_init; on
\* AUTH_GSS_ERROR drop the capsule, which runs the destructor.
InitCalled(A, E) ==
  /\ pc = "idle" /\ nops < MaxOps /\ nctx < MaxContexts
  /\ \E a \in A, env \in E :
       LET o == sspi_client_init(a, pv, env, nctx + 1)
       IN /\ Returned("init", o, env)
          /\ args' = a
          /\ pc' = IF o.made /\ o.status = AUTH_GSS_ERROR
                   THEN "d_ctx" ELSE "idle"
          /\ dealloc' = (o.made /\ o.status = AUTH_GSS_ERROR)
          /\ hist' = [NoHist EXCEPT
                        !.acquired = IF o.status = AUTH_GSS_ERROR
                                     THEN 0 ELSE o.st.cred]
          /\ alloc' = IF o.made THEN "live" ELSE "none"
          /\ nctx' = IF o.made THEN nctx + 1 ELSE nctx

ClientInit ==
  /\ alloc = "none"
  /\ InitCalled(InitArgs, InitEnvs)

\* The optional string argument with the characters x points to.
TextArg(x) == IF x = NULL THEN NULL ELSE Ptr(Text(Deref(x)))

\* sspi_client_step, called with a challenge of C and answered from E.
StepCalled(C, E) ==
  /\ \E ch \in C, env \in E :
       LET o == sspi_client_step(state, pv, ch, env)
       IN /\ Returned("step", o, env)
          /\ args' = [challenge |-> ch]
          /\ hist' = [hist EXCEPT
               !.stepped = @ \/ o.err[1] # "ValueError",
               !.iscOk = @ \/ (o.calls # <<>> /\
                               env.isc \in {SEC_E_OK, SEC_I_CONTINUE_NEEDED}),
               !.stepOk = @ \/ o.status # AUTH_GSS_ERROR,
               !.completed = @ \/ o.status = AUTH_GSS_COMPLETE,
               !.failAt = IF @ = 0 /\ o.err[1] = "KrbError"
                          THEN nops + 1 ELSE @]
  /\ UNCHANGED << alloc, nctx, pc, dealloc >>

ClientStep ==
  /\ Usable
  /\ StepCalled({ Text(c) : c \in Challenges }, StepEnvs(nops + 1))

\* sspi_client_unwrap, called with a challenge of C and answered from E.
UnwrapCalled(C, E) ==
  /\ \E ch \in C, env \in E :
       LET o == sspi_client_unwrap(state, pv, ch, env)
       IN /\ Returned("unwrap", o, env)
          /\ args' = [challenge |-> ch]
          /\ hist' = [hist EXCEPT
               !.unwrapQop = IF o.status = AUTH_GSS_COMPLETE
                             THEN env.qop ELSE @]
  /\ UNCHANGED << alloc, nctx, pc, dealloc >>

ClientUnwrap ==
  /\ Usable
  /\ UnwrapCalled({ Text(c) : c \in Challenges }, UnwrapEnvs(nops + 1))

\* sspi_client_wrap, called with data, user, protect of A and answered
\* from E.
WrapCalled(A, E) ==
  /\ \E a \in A, env \in E :
       /\ Returned("wrap",
                   sspi_client_wrap(state, pv, a[1], a[2], a[3], env), env)
       /\ args' = [data |-> a[1], user |-> a[2], protect |-> a[3]]
  /\ UNCHANGED << alloc, nctx, pc, dealloc, hist >>

ClientWrap ==
  /\ Usable
  /\ WrapCalled({ << Text(a[1]), TextArg(a[2]), a[3] >> : a \in WrapArgs },
                WrapEnvs(nops + 1))

\* sspi_client_clean
ClientClean ==
  /\ Usable
  /\ Returned("clean", sspi_client_clean(state, pv), NoEnv)
  /\ args' = NoArgs
  /\ UNCHANGED << alloc, nctx, pc, dealloc, hist >>

\* Entering destroy_sspi_client_state.
EnterDestroy(op, fromCapsule) ==
  /\ pc' = "d_ctx"
  /\ dealloc' = fromCapsule
  /\ nops' = nops + 1
  /\ lastOp' = op
  /\ status' = "void"
  /\ err' = NoError
  /\ calls' = <<>>
  /\ lastEnv' = NoEnv
  /\ prev' = [op |-> lastOp, status |-> status, st |-> state]
  /\ hist' = [hist EXCEPT !.destroys = @ + 1]
  /\ UNCHANGED << state, alloc, pv, nctx, args, thr, gil, srv >>

\* A call of destroy_sspi_client_state on the struct.  After the first
\* such call only further destroy calls follow.
DestroyState ==
  /\ alloc = "live" /\ pc = "idle" /\ nops < MaxOps
  /\ EnterDestroy("destroy", FALSE)

\* destroy_sspi_client, the capsule destructor, run when the context
\* object is reclaimed: destroy_sspi_client_state, then free(state).
DestroyClient ==
  /\ alloc = "live" /\ pc = "idle" /\ nops < MaxOps
  /\ EnterDestroy("dealloc", TRUE)

\* The next block of the running destroy_sspi_client_state.
DestroyBlock ==
  /\ pc \in {"d_ctx", "d_cred", "d_bufs"}
  /\ LET o == destroy_sspi_client_state(state, pv, pc)
     IN /\ state' = o.st
        /\ pv' = o.pv
        /\ calls' = calls \o o.calls
        /\ pc' = IF o.next # "d_done" THEN o.next
                 ELSE IF dealloc THEN "d_free" ELSE "idle"
  /\ UNCHANGED << alloc, nctx, dealloc, nops, lastOp, status, err, lastEnv,
                  hist, prev, args, thr, gil, srv >>

\* destroy_sspi_client: free(state) after destroy_sspi_client_state.
FreeState ==
  /\ pc = "d_free"
  /\ state' = Uninitialized
  /\ alloc' = "none"
  /\ pc' = "idle"
  /\ dealloc' = FALSE
  /\ UNCHANGED << pv, nctx, nops, lastOp, status, err, calls, lastEnv, hist,
                  prev, args >>
  /\ UNCHANGED << thr, gil, srv >>

Next ==
  \/ ClientInit
  \/ ClientStep
  \/ ClientUnwrap
  \/ ClientWrap
  \/ ClientClean
  \/ DestroyState
  \/ DestroyClient
  \/ DestroyBlock
  \/ FreeState

Spec == Init /\ [][Next]_vars

(***************************************************************************)
(* Calls from several Python threads on one context object.  A thread      *)
(* runs a C function with the interpreter lock held.                       *)
(* auth_sspi_client_step gives the lock up around its call of              *)
(* InitializeSecurityContextA (Py_BEGIN_ALLOW_THREADS ...                  *)
(* Py_END_ALLOW_THREADS); auth_sspi_client_unwrap and auth_sspi_client_wrap *)
(* keep it from entry to return.  Labels of a thread inside a call:        *)
(*   "s_run"   step, before Py_BEGIN_ALLOW_THREADS (lock held)             *)
(*   "s_isc"   step, lock released, InitializeSecurityContextA not yet     *)
(*             returned                                                    *)
(*   "s_wait"  step, the provider call returned, at Py_END_ALLOW_THREADS   *)
(*   "s_post"  step, lock held again                                       *)
(*   "u_run"   unwrap (lock held)      "w_run"   wrap (lock held)          *)
(***************************************************************************)
\* Variant of CanTakeGil that does not wait for the lock to be free.
CanTakeGilAlways(g) == TRUE

\* A thread takes the interpreter lock only when no thread holds it.
CanTakeGil(g) == g = 0

InFlight == { t \in Threads : thr[t].pc # "idle" }

\* A thread may call into the context object: the object is live and not
\* being destroyed, the lock can be taken, the thread is outside every call.
CanEnter(t) ==
  /\ alloc = "live" /\ pc = "idle" /\ hist.destroys = 0
  /\ thr[t].pc = "idle"
  /\ CanTakeGil(gil)
  /\ nops + Cardinality(InFlight) < MaxOps

\* auth_sspi_client_step from its entry to Py_BEGIN_ALLOW_THREADS.
StepPrologue(st, challenge) ==
  [st |-> FreeResponse(st),
   inBuf |-> StepInput(st, challenge)]

\* The call of InitializeSecurityContextA, arguments included: they are
\* evaluated after the lock is released.  The provider writes state->ctx
\* when it creates the context.
StepProviderCall(st, p, inBuf, env) ==
  [st |-> IF ~IscFailed(env.isc) /\ st.haveCtx = 0
          THEN [st EXCEPT !.ctx = st.cred] ELSE st,
   pv |-> InitializeSecurityContext(p, st.haveCtx, env.isc, st.cred),
   calls |-> << Call("InitializeSecurityContext",
                     IF st.haveCtx = 1 THEN st.ctx ELSE 0, inBuf) >>]

\* auth_sspi_client_step from Py_END_ALLOW_THREADS to its return.
StepEpilogue(st, p, env, cs) ==
  IF IscFailed(env.isc)
  THEN StepError(st, p, "InitializeSecurityContext", cs)
  ELSE
    LET s1 == [st EXCEPT !.haveCtx = 1]
        s2 == StoreResponse(s1, env.tok, env.enc)
        qca == Call("QueryContextAttributes", s2.ctx,
                    Ptr("SECPKG_ATTR_NAMES"))
    IN IF IscComplete(env.isc)
       THEN IF env.qca # SEC_E_OK
            THEN StepError(s2, p, "QueryContextAttributes",
                           Append(cs, qca))
            ELSE IF ~env.dup
            THEN Outcome([s2 EXCEPT !.username = NULL], p,
                         AUTH_GSS_ERROR, MemoryError, Append(cs, qca))
            ELSE Outcome([s2 EXCEPT !.username = Ptr(env.name)], p,
                         AUTH_GSS_COMPLETE, NoError, Append(cs, qca))
       ELSE Outcome(s2, p, AUTH_GSS_CONTINUE, NoError, cs)

\* What the provider answers in the runs with threads.
ThreadStepEnvs(n) ==
  { e \in StepEnvs(n) :
      /\ e.enc /\ e.dup /\ e.qca = SEC_E_OK /\ e.name = "u@REALM"
      /\ (e.tok # <<>> \/ e.isc = SEC_E_FAILURE) }

ThreadUnwrapEnvs(n) == { e \in UnwrapEnvs(n) : e.enc /\ e.data # <<>> }

ThreadWrapEnvs(n) ==
  { e \in WrapEnvs(n) :
      /\ e.enc /\ e.qca = SEC_E_OK /\ e.inbuf /\ e.outbuf
      /\ e.encrypt = SEC_E_OK /\ Len(e.padding) = e.sizes.cbBlockSize }

ThreadChallenges == { base64_text(<<9>>) }

\* A thread moves; the context object and the last call stay as they are.
ThreadMoves(t, label, locals, g) ==
  /\ thr' = [thr EXCEPT ![t] = [locals EXCEPT !.pc = label]]
  /\ gil' = g
  /\ UNCHANGED << alloc, nctx, pc, dealloc, nops, lastOp, status, err, calls,
                  lastEnv, hist, prev, args, srv >>

\* A thread returns from its call and lets the lock go.
ThreadReturns(t, op, o, env) ==
  /\ Finished(op, o, env)
  /\ args' = [challenge |-> thr[t].ch]
  /\ thr' = [thr EXCEPT ![t] = IdleThread]
  /\ gil' = 0
  /\ UNCHANGED << alloc, nctx, pc, dealloc, hist >>

\* sspi_client_step is called: auth_sspi_client_step runs to
\* Py_BEGIN_ALLOW_THREADS.
StepEnter(t) ==
  /\ CanEnter(t)
  /\ \E ch \in ThreadChallenges :
       LET pro == StepPrologue(state, ch)
       IN /\ state' = pro.st
          /\ ThreadMoves(t, "s_run",
                         [IdleThread EXCEPT !.ch = ch, !.inBuf = pro.inBuf],
                         t)
  /\ pv' = pv

\* Py_BEGIN_ALLOW_THREADS
StepAllowThreads(t) ==
  /\ thr[t].pc = "s_run"
  /\ ThreadMoves(t, "s_isc", thr[t], 0)
  /\ UNCHANGED << state, pv >>

\* InitializeSecurityContextA runs and returns, the lock not held.
StepProvider(t) ==
  /\ thr[t].pc = "s_isc"
  /\ \E env \in ThreadStepEnvs(nops + 1) :
       LET o == StepProviderCall(state, pv, thr[t].inBuf, env)
       IN /\ state' = o.st
          /\ pv' = o.pv
          /\ ThreadMoves(t, "s_wait",
                         [thr[t] EXCEPT !.env = env, !.calls = o.calls], gil)

\* Py_END_ALLOW_THREADS
StepEndAllowThreads(t) ==
  /\ thr[t].pc = "s_wait"
  /\ CanTakeGil(gil)
  /\ ThreadMoves(t, "s_post", thr[t], t)
  /\ UNCHANGED << state, pv >>

\* The rest of auth_sspi_client_step, and the return of sspi_client_step.
StepReturn(t) ==
  /\ thr[t].pc = "s_post"
  /\ ThreadReturns(t, "step",
                   StepEpilogue(state, pv, thr[t].env, thr[t].calls),
                   thr[t].env)

\* sspi_client_unwrap is called; auth_sspi_client_unwrap frees the
\* previous response.
UnwrapEnter(t) ==
  /\ CanEnter(t)
  /\ \E ch \in ThreadChallenges :
       ThreadMoves(t, "u_run", [IdleThread EXCEPT !.ch = ch], t)
  /\ state' = FreeResponse(state)
  /\ pv' = pv

\* The rest of auth_sspi_client_unwrap, and the return.
UnwrapReturn(t) ==
  /\ thr[t].pc = "u_run"
  /\ \E env \in ThreadUnwrapEnvs(nops + 1) :
       ThreadReturns(t, "unwrap",
                     auth_sspi_client_unwrap(state, pv, thr[t].ch, env), env)

\* sspi_client_wrap is called; auth_sspi_client_wrap frees the previous
\* response.
WrapEnter(t) ==
  /\ CanEnter(t)
  /\ \E ch \in ThreadChallenges :
       ThreadMoves(t, "w_run", [IdleThread EXCEPT !.ch = ch], t)
  /\ state' = FreeResponse(state)
  /\ pv' = pv

\* The rest of auth_sspi_client_wrap, and the return.
WrapReturn(t) ==
  /\ thr[t].pc = "w_run"
  /\ \E env \in ThreadWrapEnvs(nops + 1) :
       ThreadReturns(t, "wrap",
                     auth_sspi_client_wrap(state, pv, thr[t].ch, NULL, env),
                     env)

ThreadNext ==
  \/ ClientInit
  \/ DestroyBlock
  \/ FreeState
  \/ \E t \in Threads : StepEnter(t)
  \/ \E t \in Threads : StepAllowThreads(t)
  \/ \E t \in Threads : StepProvider(t)
  \/ \E t \in Threads : StepEndAllowThreads(t)
  \/ \E t \in Threads : StepReturn(t)
  \/ \E t \in Threads : UnwrapEnter(t)
  \/ \E t \in Threads : UnwrapReturn(t)
  \/ \E t \in Threads : WrapEnter(t)
  \/ \E t \in Threads : WrapReturn(t)

ThreadSpec == Init /\ [][ThreadNext]_vars

(***************************************************************************)
(* The entry points called with a wider range of arguments: credentials    *)
(* given as principal or as user, domain and password, and strings too     *)
(* long for a ULONG.                                                       *)
(***************************************************************************)
\* A string of 2^32 characters.
TooLong == [chars |-> <<>>, pad |-> 1]

InitArg(service, principal, user, domain, password) ==
  [service |-> service, flags |-> {ISC_REQ_MUTUAL_AUTH},
   principal |-> principal, user |-> user, domain |-> domain,
   password |-> password]

Services ==
  { <<"s","@","h">>, <<"s","/","h","@","R">>, <<"a","@","b","@","c">>,
    <<"s","h">> }

Principals ==
  { <<"a",":","p",":","q">>, <<"a",":","p">>, <<"a","@","R">>, <<"a",":">>,
    <<":","p">>, <<":","p",":","q">>,
    <<"a","%","3","A","b",":","p","%","2","5">> }

WideInitArgs ==
  LET S(c) == Ptr(Text(c))
      svc == <<"s","@","h">>
  IN { InitArg(v, NULL, NULL, NULL, NULL) : v \in Services }
     \cup { InitArg(svc, S(q), NULL, NULL, NULL) : q \in Principals }
     \cup { InitArg(svc, S(q), NULL, S(<<"d">>), S(<<"w">>)) :
            q \in { <<"a",":","p">>, <<"a","@","R">> } }
     \cup { InitArg(svc, S(<<"a",":","p">>), NULL, NULL,
                    S(<<"w","w","w">>)) }
     \cup { InitArg(svc, q, S(<<"u",":","v">>), S(<<"d">>), S(<<"w">>)) :
            q \in { NULL, S(<<"a",":","p">>) } }
     \cup { InitArg(svc, NULL, S(<<"u">>), NULL, NULL),
            InitArg(svc, NULL, NULL, NULL, S(<<"w">>)),
            InitArg(svc, NULL, Ptr(TooLong), NULL, NULL),
            InitArg(svc, NULL, S(<<"u">>), Ptr(TooLong), NULL),
            InitArg(svc, S(<<"a">>), NULL, NULL, Ptr(TooLong)),
            InitArg(svc, Ptr(TooLong), NULL, NULL, NULL) }

WideInitEnvs ==
  { InitEnv(TRUE, SEC_E_OK), InitEnv(TRUE, SEC_E_FAILURE),
    [InitEnv(TRUE, SEC_E_OK) EXCEPT !.wdup = FALSE],
    [InitEnv(TRUE, SEC_E_OK) EXCEPT !.esc = "E_INVALIDARG"],
    [InitEnv(TRUE, SEC_E_OK) EXCEPT !.malloc = FALSE] }

WideTexts == { Text(base64_text(<<9>>)), TooLong }

WideWrapArgs ==
  { << t, NULL, 0 >> : t \in WideTexts }
  \cup { << Text(base64_text(<<9>>)), u, 0 >> :
         u \in { Ptr(Text(<<117>>)), Ptr(TooLong) } }

ClientInitWide ==
  /\ alloc = "none"
  /\ InitCalled(WideInitArgs, WideInitEnvs)

ClientStepWide ==
  /\ Usable
  /\ StepCalled(WideTexts, ThreadStepEnvs(nops + 1))

ClientUnwrapWide ==
  /\ Usable
  /\ UnwrapCalled(WideTexts,
                  ThreadUnwrapEnvs(nops + 1)
                  \cup { e \in UnwrapEnvs(nops + 1) : e.dec # SEC_E_OK })

ClientWrapWide ==
  /\ Usable
  /\ WrapCalled(WideWrapArgs,
                ThreadWrapEnvs(nops + 1)
                \cup { e \in WrapEnvs(nops + 1) :
                       e.encrypt # SEC_E_OK \/ ~e.inbuf })

ArgNext ==
  \/ ClientInitWide
  \/ ClientStepWide
  \/ ClientUnwrapWide
  \/ ClientWrapWide
  \/ DestroyClient
  \/ DestroyBlock
  \/ FreeState

ArgSpec == Init /\ [][ArgNext]_vars

(***************************************************************************)
(* Properties.                                                             *)
(***************************************************************************)
CallsTo(fns) == { i \in DOMAIN calls : calls[i].fn \in fns }

\* The bytes the response decodes to (empty when there is no response).
ResponseBytes(st) ==
  IF sspi_client_response(st) = NULL
        \/ base64_decode(Deref(sspi_client_response(st))) = NULL
  THEN <<>>
  ELSE Deref(base64_decode(Deref(sspi_client_response(st))))

\* C1: client wrap or unwrap on a context that was initialised and on
\* which no step has been made returns Error with the uninitialized-context
\* error, makes no provider call, and leaves haveCred, haveCtx and the
\* credential handle as init left them (as the call found them).
C1_UnsteppedWrapUnwrapRejected ==
  (lastOp \in {"wrap", "unwrap"} /\ ~hist.stepped) =>
    /\ status = AUTH_GSS_ERROR
    /\ err = UninitializedContext
    /\ calls = <<>>
    /\ state.haveCred = prev.st.haveCred /\ state.haveCred = 1
    /\ state.haveCtx = prev.st.haveCtx /\ state.haveCtx = 0
    /\ state.cred = prev.st.cred /\ state.cred = hist.acquired
    /\ state.cred \in pv.creds

C1_Witness ==
  /\ lastOp = "unwrap" /\ prev.op = "init" /\ ~hist.stepped
  /\ status = AUTH_GSS_ERROR /\ err = UninitializedContext

\* C2 as stated: while no step has returned Complete, wrap and unwrap fail
\* with the uninitialized-context error and never call EncryptMessage or
\* DecryptMessage.
C2_RequiresEstablished ==
  (lastOp \in {"wrap", "unwrap"} /\ ~hist.completed) =>
    /\ status = AUTH_GSS_ERROR
    /\ err = UninitializedContext
    /\ CallsTo({"EncryptMessage", "DecryptMessage"}) = {}

\* C2 amended: wrap and unwrap require a present context handle, not a
\* completed handshake.  While no InitializeSecurityContext call of a step
\* has succeeded they fail with the uninitialized-context error and make
\* no provider call; once one has succeeded (also when that step returned
\* Continue) they are not rejected and do call the provider.
C2_RequiresContextHandle ==
  lastOp \in {"wrap", "unwrap"} =>
    /\ ~hist.iscOk =>
         /\ status = AUTH_GSS_ERROR
         /\ err = UninitializedContext
         /\ calls = <<>>
    /\ hist.iscOk =>
         /\ err # UninitializedContext
         /\ calls # <<>>
         /\ lastOp = "unwrap" => calls[1].fn = "DecryptMessage"
         /\ lastOp = "wrap" => calls[1].fn = "QueryContextAttributes"

C2_Witness ==
  /\ lastOp = "wrap" /\ hist.stepped /\ ~hist.iscOk
  /\ status = AUTH_GSS_ERROR /\ err = UninitializedContext

\* Every handle the provider issued has been released exactly once.
AllReleasedOnce ==
  /\ pv.creds = {} /\ pv.ctxs = {}
  /\ \A h \in pv.credsIssued : pv.credFrees[h] = 1
  /\ \A h \in pv.ctxsIssued : pv.ctxFrees[h] = 1

\* C3: after any sequence of init, step, wrap, unwrap and clean calls
\* followed by destroy calls, each handle that was acquired has been
\* released exactly once (none twice, none that was never issued); the
\* second and later destroy calls release nothing, free nothing and raise
\* no error.
C3_DestroyReleasesOnce ==
  /\ \A h \in Handles :
       /\ pv.credFrees[h] <= 1 /\ pv.ctxFrees[h] <= 1
       /\ pv.credFrees[h] = 1 => h \in pv.credsIssued
       /\ pv.ctxFrees[h] = 1 => h \in pv.ctxsIssued
  /\ (hist.destroys >= 1 /\ pc \in {"idle", "d_free"}) => AllReleasedOnce
  /\ alloc = "none" => AllReleasedOnce
  /\ (lastOp \in {"destroy", "dealloc"} /\ hist.destroys >= 2) =>
       calls = <<>> /\ err = NoError

C3_Witness ==
  /\ lastOp = "destroy" /\ hist.destroys = 2 /\ pc = "idle"
  /\ hist.iscOk /\ hist.acquired # 0
  /\ pv.credFrees[hist.acquired] = 1 /\ pv.ctxFrees[hist.acquired] = 1

\* C4: destroy releases the security-context handle before the credential
\* handle: no context handle is live when the credential handle it was
\* created under has been released, and within a destroy call
\* DeleteSecurityContext comes before FreeCredentialsHandle.
C4_ContextReleasedFirst ==
  /\ \A h \in pv.ctxs : h \in pv.creds
  /\ \A i \in CallsTo({"FreeCredentialsHandle"}) :
       \A j \in CallsTo({"DeleteSecurityContext"}) : j < i

C4_Witness ==
  /\ lastOp \in {"destroy", "dealloc"}
  /\ Len(calls) >= 2
  /\ calls[1].fn = "DeleteSecurityContext"
  /\ calls[2].fn = "FreeCredentialsHandle"

\* The InitializeSecurityContext call of the last step failed.
LastIscFailed == lastEnv.isc \notin {SEC_E_OK, SEC_I_CONTINUE_NEEDED}

\* A live context object between calls, not yet destroyed.
InUse == alloc = "live" /\ pc = "idle" /\ hist.destroys = 0

\* C5 as stated: the context handle is present if and only if at least
\* one step has returned Continue or Complete.
C5_PresentIffStepSucceeded ==
  InUse => (state.haveCtx = 1 <=> hist.stepOk)

\* C5 amended: before destroy, the context handle is present if and only
\* if the InitializeSecurityContext call of at least one step has
\* succeeded.  A step that returns Error because that call failed never
\* makes it present; a step that returns Error after that call succeeded
\* (the name query or the copy of the name failed) does.
C5_PresentIffIscSucceeded ==
  InUse =>
    /\ state.haveCtx = 1 <=> hist.iscOk
    /\ state.haveCtx = 1 => state.ctx \in pv.ctxs
    /\ (lastOp = "step" /\ LastIscFailed) =>
         state.haveCtx = prev.st.haveCtx

C5_Witness ==
  /\ InUse /\ lastOp = "step" /\ status = AUTH_GSS_ERROR
  /\ ~hist.stepOk /\ state.haveCtx = 1 /\ prev.st.haveCtx = 0

\* C6: from a successful init until destroy the credential handle is
\* present, is the one init acquired and is live in the provider: no step,
\* wrap, unwrap or clean call releases, replaces or clears it.
C6_CredentialKept ==
  (alloc = "live" /\ hist.acquired # 0 /\ hist.destroys = 0) =>
    /\ state.haveCred = 1
    /\ state.cred = hist.acquired
    /\ state.cred \in pv.creds
    /\ pv.credFrees[state.cred] = 0

C6_Witness ==
  /\ InUse /\ hist.acquired # 0 /\ hist.failAt # 0
  /\ lastOp = "wrap" /\ status = AUTH_GSS_ERROR /\ calls # <<>>
  /\ state.haveCred = 1

AfterStepFailure == hist.failAt # 0 /\ nops > hist.failAt

\* C8 as stated: once a provider call has failed in a step, no later
\* step, wrap or unwrap succeeds or reaches the provider.
C8_FailedIsTerminal ==
  (AfterStepFailure /\ lastOp \in {"step", "wrap", "unwrap"}) =>
    status = AUTH_GSS_ERROR /\ calls = <<>>

\* C8 amended: a provider failure during step makes step return Error,
\* but the context has no terminal Failed state.  The failing step leaves
\* the credential handle present and the context handle as
\* InitializeSecurityContext left it, and later calls are not blocked:
\* every later step calls InitializeSecurityContext again, and a later
\* wrap or unwrap reaches the provider exactly when the context handle is
\* present.
C8_FailureNotTerminal ==
  /\ (lastOp = "step" /\ err[1] = "KrbError") =>
       /\ status = AUTH_GSS_ERROR
       /\ state.haveCred = 1 /\ state.cred = prev.st.cred
       /\ state.haveCtx = IF LastIscFailed THEN prev.st.haveCtx ELSE 1
       /\ state.username = prev.st.username
  /\ (AfterStepFailure /\ lastOp = "step") =>
       /\ calls # <<>>
       /\ calls[1].fn = "InitializeSecurityContext"
       /\ ~LastIscFailed => state.haveCtx = 1
  /\ (AfterStepFailure /\ lastOp \in {"wrap", "unwrap"}) =>
       (calls # <<>> <=> state.haveCtx = 1)

C8_Witness ==
  /\ AfterStepFailure /\ lastOp = "step" /\ status = AUTH_GSS_COMPLETE
  /\ prev.op = "step" /\ prev.status = AUTH_GSS_ERROR

\* The last call was a step whose InitializeSecurityContext call succeeded.
StepIscSucceeded ==
  lastOp = "step" /\ lastEnv.isc \in {SEC_E_OK, SEC_I_CONTINUE_NEEDED}

\* C9 as stated: when InitializeSecurityContext succeeds, step stores the
\* context handle, returns Continue exactly when more rounds are needed
\* and Complete exactly when the provider signalled completion, and the
\* response is the base64 text of the output token when that is non-empty
\* and none when it is empty.
C9_StepResult ==
  StepIscSucceeded =>
    /\ state.haveCtx = 1
    /\ status = AUTH_GSS_CONTINUE <=> lastEnv.isc = SEC_I_CONTINUE_NEEDED
    /\ status = AUTH_GSS_COMPLETE <=> lastEnv.isc = SEC_E_OK
    /\ sspi_client_response(state) =
         IF lastEnv.tok # <<>> THEN Ptr(base64_text(lastEnv.tok)) ELSE NULL

\* C9 amended: when InitializeSecurityContext succeeds, step stores the
\* context handle and returns Continue exactly when more rounds are
\* needed; when the provider signalled completion it returns Complete if
\* the name query and the copy of the name succeed and Error otherwise.
\* The response is the base64 text of the output token when that is
\* non-empty and the text could be allocated, and none otherwise.
C9_StepResultAmended ==
  StepIscSucceeded =>
    /\ state.haveCtx = 1 /\ state.ctx \in pv.ctxs
    /\ status = AUTH_GSS_CONTINUE <=> lastEnv.isc = SEC_I_CONTINUE_NEEDED
    /\ status = AUTH_GSS_COMPLETE <=>
         (lastEnv.isc = SEC_E_OK /\ lastEnv.qca = SEC_E_OK /\ lastEnv.dup)
    /\ status = AUTH_GSS_ERROR <=>
         (lastEnv.isc = SEC_E_OK /\ ~(lastEnv.qca = SEC_E_OK /\ lastEnv.dup))
    /\ sspi_client_response(state) =
         IF lastEnv.tok # <<>> /\ lastEnv.enc
         THEN Ptr(base64_text(lastEnv.tok)) ELSE NULL

C9_Witness ==
  /\ StepIscSucceeded /\ lastEnv.isc = SEC_E_OK /\ lastEnv.qca # SEC_E_OK
  /\ status = AUTH_GSS_ERROR /\ state.haveCtx = 1
  /\ sspi_client_response(state) # NULL

HoldsGil == { "s_run", "s_post", "u_run", "w_run" }

AllowsThreads == { "s_isc", "s_wait" }

WrapFilled ==
  /\ lastOp = "wrap" /\ status = AUTH_GSS_COMPLETE /\ lastEnv.enc
  /\ Len(lastEnv.trailer) = lastEnv.sizes.cbSecurityTrailer
  /\ Len(lastEnv.padding) = lastEnv.sizes.cbBlockSize

\* The payload handed to EncryptMessage by the last wrap.
WrapPayload == Deref(calls[2].arg).data

\* C12: for a provider that reports trailer size T and block size B and
\* fills both, wrapping a payload of length L leaves in the response the
\* base64 text of a buffer of length T + L + B: the trailer bytes, then the
\* payload bytes, then the padding bytes; wrap returns AUTH_GSS_COMPLETE.
C12_WrapFraming ==
  WrapFilled =>
    LET buf == ResponseBytes(state)
        T == lastEnv.sizes.cbSecurityTrailer
        L == Len(WrapPayload)
        B == lastEnv.sizes.cbBlockSize
    IN /\ state.response = Ptr(base64_text(buf))
       /\ Len(buf) = T + L + B
       /\ SubSeq(buf, 1, T) = lastEnv.trailer
       /\ SubSeq(buf, T + 1, T + L) = WrapPayload
       /\ SubSeq(buf, T + L + 1, T + L + B) = lastEnv.padding
       /\ calls[2].fn = "EncryptMessage"
       /\ Deref(calls[2].arg).token = T /\ Deref(calls[2].arg).padding = B

\* A wrap of a non-empty payload with trailer and padding filled.
C12_Witness ==
  /\ WrapFilled
  /\ Len(WrapPayload) > 0
  /\ lastEnv.sizes.cbBlockSize > 0
  /\ Len(ResponseBytes(state)) =
       lastEnv.sizes.cbSecurityTrailer + Len(WrapPayload)
         + lastEnv.sizes.cbBlockSize

(***************************************************************************)
(* C13.  The quality of protection wrap asks for.                          *)
(***************************************************************************)
\* C13: wrap asks the provider to encrypt with confidentiality exactly when
\* the caller passed protect = true, and with integrity only
\* (SECQOP_WRAP_NO_ENCRYPT) exactly when protect = false.
C13_ProtectSelectsQop ==
  lastOp = "wrap" =>
    \A i \in CallsTo({"EncryptMessage"}) :
      (args.protect # 0) <=>
        (Deref(calls[i].arg).qop # "SECQOP_WRAP_NO_ENCRYPT")

(***************************************************************************)
(* C14.  authGSSClientResponseConf.                                        *)
(***************************************************************************)
\* C14: client_response_confidentiality returns true exactly when the most
\* recent successful unwrap on the context found the message encrypted;
\* the value it reads is one an unwrap has stored, never one that nothing
\* has written.
C14_ConfOfLastUnwrap ==
  InUse =>
    /\ \A mem \in QopValues :
         (sspi_client_response_conf(state, mem) = "1")
           <=> (hist.unwrapQop = SECQOP_ENCRYPT)
    /\ state.qop # "?"

(***************************************************************************)
(* C15 - C19.  The arguments of authGSSClientInit and the lengths of       *)
(* string arguments.                                                       *)
(***************************************************************************)
\* What the last init handed to AcquireCredentialsHandleA.
Acquire == Deref(calls[1].arg)

Identity == Deref(Acquire.pAuthData)

InitReachedProvider == lastOp = "init" /\ calls # <<>>

InitByPrincipal ==
  lastOp = "init" /\ args.user = NULL /\ args.principal # NULL

PrincipalChars == Deref(args.principal).chars

\* Every allocation and conversion of the last init succeeded.
InitAllocsOk ==
  lastEnv.dup /\ lastEnv.malloc /\ lastEnv.wdup /\ lastEnv.esc = "S_OK"

\* The pieces of c between ':' characters, empty pieces left out: where
\* they start, and the k-th of them.
PieceStarts(c) ==
  { i \in 1..Len(c) : c[i] # ":" /\ (i = 1 \/ c[i - 1] = ":") }

Piece(c, k) ==
  LET i == CHOOSE x \in PieceStarts(c) :
             Cardinality({ y \in PieceStarts(c) : y < x }) = k - 1
      j == CHOOSE x \in i..Len(c) :
             /\ \A y \in i..x : c[y] # ":"
             /\ (x = Len(c) \/ c[x + 1] = ":")
  IN SubSeq(c, i, j)

\* C15: with no explicit user and a principal that contains ':', the
\* principal is split at its first ':' only: the user is everything before
\* it and the password everything after it, further ':' included.
C15_SplitAtFirstColon ==
  (InitByPrincipal /\ HasChar(PrincipalChars, ":") /\ InitAllocsOk) =>
    LET k == FirstIndex(PrincipalChars, ":")
    IN /\ InitReachedProvider
       /\ Identity.User =
            Ptr(UrlUnescapeW(Text(SubSeq(PrincipalChars, 1, k - 1))))
       /\ Identity.Password =
            Ptr(UrlUnescapeW(Text(SubSeq(PrincipalChars, k + 1,
                                         Len(PrincipalChars)))))

\* C15 (amended): with no explicit user and a principal that contains ':',
\* the principal is cut at every ':' and empty pieces are skipped; the user
\* is the first piece and the password the second, both URL-unescaped, and
\* what follows a further ':' is dropped.  With fewer than two pieces init
\* fails with MemoryError before any provider call.
C15_SplitIntoPieces ==
  (InitByPrincipal /\ HasChar(PrincipalChars, ":") /\ InitAllocsOk) =>
    IF Cardinality(PieceStarts(PrincipalChars)) < 2
    THEN err = MemoryError /\ calls = <<>> /\ alloc = "none"
    ELSE /\ InitReachedProvider
         /\ Identity.User = Ptr(UrlUnescapeW(Text(Piece(PrincipalChars, 1))))
         /\ Identity.Password =
              Ptr(UrlUnescapeW(Text(Piece(PrincipalChars, 2))))

\* Init with principal "a:p:q" reached the provider with password "p".
C15_Witness ==
  /\ InitByPrincipal /\ InitReachedProvider
  /\ PrincipalChars = <<"a",":","p",":","q">>
  /\ Identity.User = Ptr(Text(<<"a">>))
  /\ Identity.Password = Ptr(Text(<<"p">>))

\* C16: with an explicit user, the credentials handed to the provider are
\* exactly the user, domain and password of the caller; the principal is
\* ignored and a ':' in user separates nothing.
C16_ExplicitUser ==
  (lastOp = "init" /\ args.user # NULL) =>
    /\ (InitReachedProvider <=>
          /\ lastEnv.malloc /\ lastEnv.dup
          /\ \A x \in {args.user, args.domain, args.password} :
               x = NULL \/ Deref(x).pad = 0)
    /\ InitReachedProvider =>
          /\ Acquire.pszPrincipal = NULL
          /\ Identity.User = args.user
          /\ Identity.UserLength = Len(Deref(args.user).chars)
          /\ Identity.Domain = args.domain
          /\ Identity.Password = args.password
          /\ args.domain # NULL =>
                Identity.DomainLength = Len(Deref(args.domain).chars)
          /\ args.password # NULL =>
                Identity.PasswordLength = Len(Deref(args.password).chars)

\* Init with user "u:v" and a principal "a:p" reached the provider.
C16_Witness ==
  /\ InitReachedProvider
  /\ args.user = Ptr(Text(<<"u",":","v">>)) /\ args.principal # NULL
  /\ Identity.User = Ptr(Text(<<"u",":","v">>))
  /\ Identity.Password = Ptr(Text(<<"w">>))

\* C17: with no user and a principal, the domain and the password the
\* caller gave separately are dropped and never reach the provider; a
\* principal without ':' is the user as a whole, and no password is passed.
C17_PrincipalOnly ==
  (InitByPrincipal /\ InitReachedProvider) =>
    /\ Identity.Domain = NULL /\ Identity.DomainLength = 0
    /\ args.password # NULL => Identity.Password # args.password
    /\ ~HasChar(PrincipalChars, ":") =>
          /\ Identity.User = Ptr(UrlUnescapeW(Deref(args.principal)))
          /\ Identity.Password = NULL /\ Identity.PasswordLength = 0

\* Init with principal "a@R", domain "d" and password "w" reached the
\* provider with user "a@R" alone.
C17_Witness ==
  /\ InitByPrincipal /\ InitReachedProvider
  /\ PrincipalChars = <<"a","@","R">>
  /\ args.domain # NULL /\ args.password # NULL
  /\ Identity.User = Ptr(Text(<<"a","@","R">>))
  /\ Identity.Password = NULL /\ Identity.Domain = NULL

\* C18: init stores the service name with its first '@' replaced by '/'
\* when the name contains no '/', and unchanged when it contains one.
C18_SpnNormalized ==
  (lastOp = "init" /\ alloc = "live" /\ state.spn # NULL) =>
    LET sv == args.service
        spn == Deref(state.spn)
        slash == \E i \in 1..Len(sv) : sv[i] = "/"
    IN /\ Len(spn) = Len(sv)
       /\ \A i \in 1..Len(sv) :
            spn[i] = IF /\ ~slash /\ sv[i] = "@"
                        /\ \A j \in 1..(i - 1) : sv[j] # "@"
                     THEN "/" ELSE sv[i]

\* Init with "a@b@c" stored "a/b@c".
C18_Witness ==
  /\ lastOp = "init" /\ alloc = "live" /\ status = AUTH_GSS_COMPLETE
  /\ args.service = <<"a","@","b","@","c">>
  /\ state.spn = Ptr(<<"a","/","b","@","c">>)

\* The string arguments of the last call that are longer than ULONG_MAX.
LongOf(field, x) ==
  IF x # NULL /\ Deref(x).pad > 0 THEN {field} ELSE {}

TooLongFields ==
  CASE lastOp = "init" ->
         LongOf("principal", args.principal) \cup LongOf("user", args.user)
           \cup LongOf("domain", args.domain)
           \cup LongOf("password", args.password)
    [] lastOp \in {"step", "unwrap"} ->
         LongOf("challenge", Ptr(args.challenge))
    [] lastOp = "wrap" ->
         LongOf("data", Ptr(args.data)) \cup LongOf("user", args.user)
    [] OTHER -> {}

\* C19: a call with a string argument longer than the provider's largest
\* length fails with a value-too-large error that names the argument,
\* before any provider call and with every field of the context as it was.
C19_TooLongRejected ==
  TooLongFields # {} =>
    /\ err[1] = "ValueError" /\ err[2] \in TooLongFields
    /\ calls = <<>>
    /\ state = prev.st

(***************************************************************************)
(* C20.  Malformed base64 input.                                           *)
(***************************************************************************)
\* The last call was given text that base64_decode rejects (wrap decodes
\* its data only when no user is given).
MalformedInput ==
  \/ /\ lastOp \in {"step", "unwrap"}
     /\ base64_decode(args.challenge.chars) = NULL
  \/ /\ lastOp = "wrap" /\ args.user = NULL
     /\ base64_decode(args.data.chars) = NULL

\* C20: a step, unwrap or wrap call on a context whose base64 input is
\* malformed fails with an error, makes no provider call and leaves every
\* field of the context as it was before the call.
C20_MalformedRejected ==
  (MalformedInput /\ alloc = "live") =>
    /\ status = AUTH_GSS_ERROR /\ err # NoError
    /\ calls = <<>>
    /\ state = prev.st

(***************************************************************************)
(* C21.  Failing allocations in step, wrap and unwrap.                     *)
(***************************************************************************)
\* The last call was a step whose _strdup of the authenticated name failed.
StepDupFailed ==
  /\ lastOp = "step"
  /\ lastEnv.isc = SEC_E_OK /\ lastEnv.qca = SEC_E_OK /\ ~lastEnv.dup

\* The last call was a wrap whose malloc of inbuf or of outbuf failed.
WrapMallocFailed ==
  /\ lastOp = "wrap" /\ prev.st.haveCtx = 1 /\ lastEnv.qca = SEC_E_OK
  /\ \/ ~lastEnv.inbuf
     \/ lastEnv.encrypt = SEC_E_OK /\ ~lastEnv.outbuf

\* The last call reached base64_encode with bytes to encode, and
\* base64_encode could not allocate its result.
EncodeFailed ==
  \/ /\ lastOp = "step" /\ ~lastEnv.enc
     /\ lastEnv.isc \in {SEC_E_OK, SEC_I_CONTINUE_NEEDED}
     /\ Len(lastEnv.tok) # 0
  \/ /\ lastOp = "unwrap" /\ ~lastEnv.enc /\ prev.st.haveCtx = 1
     /\ lastEnv.dec = SEC_E_OK /\ Len(lastEnv.data) # 0
  \/ /\ lastOp = "wrap" /\ ~lastEnv.enc /\ prev.st.haveCtx = 1
     /\ lastEnv.qca = SEC_E_OK /\ lastEnv.inbuf
     /\ lastEnv.encrypt = SEC_E_OK /\ lastEnv.outbuf

\* C21: when a memory allocation fails inside step, wrap or unwrap, the
\* call returns an allocation error and the struct is as it was before the
\* call.
C21_AllocFailureKeepsState ==
  (StepDupFailed \/ WrapMallocFailed \/ EncodeFailed) =>
    /\ status = AUTH_GSS_ERROR /\ err = MemoryError
    /\ state = prev.st

\* C21 (amended): a failing malloc in wrap and a failing _strdup in step
\* make the call return Error with MemoryError; credential handle, target
\* name and flags stay, the previous response is gone.  After the wrap the
\* response is NULL and nothing else changed; after the step the context
\* handle is present, the new token (if any) is the response and username
\* is NULL.  A failing allocation inside base64_encode is not reported:
\* the call returns as if the result were empty, with response NULL.
C21_AllocFailure ==
  /\ WrapMallocFailed =>
       /\ status = AUTH_GSS_ERROR /\ err = MemoryError
       /\ state = [prev.st EXCEPT !.response = NULL]
  /\ StepDupFailed =>
       /\ status = AUTH_GSS_ERROR /\ err = MemoryError
       /\ state.haveCred = prev.st.haveCred /\ state.cred = prev.st.cred
       /\ state.spn = prev.st.spn /\ state.flags = prev.st.flags
       /\ state.haveCtx = 1
       /\ state.username = NULL
       /\ state.response =
            IF Len(lastEnv.tok) = 0 \/ ~lastEnv.enc THEN NULL
            ELSE Ptr(base64_text(lastEnv.tok))
  /\ (EncodeFailed /\ ~StepDupFailed) =>
       /\ state.response = NULL
       /\ err # MemoryError
       /\ (lastOp = "step" /\ lastEnv.isc = SEC_E_OK
             /\ lastEnv.qca # SEC_E_OK)
          \/ (status # AUTH_GSS_ERROR /\ err = NoError)

\* A wrap whose malloc failed, on a context that held a response.
C21_Witness ==
  /\ WrapMallocFailed
  /\ prev.st.response # NULL /\ state.response = NULL
  /\ err = MemoryError

\* A step that could not copy the name, after an earlier step completed.
C21_WitnessStep ==
  /\ StepDupFailed /\ prev.st.username # NULL /\ state.username = NULL

(***************************************************************************)
(* C22.  Init whose AcquireCredentialsHandle fails.                        *)
(***************************************************************************)
\* The last call was an init that reached AcquireCredentialsHandle and
\* was refused there.
AcquireFailed ==
  /\ lastOp = "init" /\ calls # <<>>
  /\ calls[1].fn = "AcquireCredentialsHandle"
  /\ lastEnv.acq # SEC_E_OK

\* The calls the destructor has made so far, after the one of init.
DestructorCalls == SubSeq(calls, 2, Len(calls))

\* C22: when AcquireCredentialsHandle fails, init raises, the caller gets
\* no context object, the destructor runs once over the struct, freeing
\* the target name and nothing else, and releases no handle.
C22_FailedAcquire ==
  AcquireFailed =>
    /\ status = AUTH_GSS_ERROR
    /\ err = KrbErrorOf("AcquireCredentialsHandle")
    /\ ~(alloc = "live" /\ pc = "idle")
    /\ hist.acquired = 0
    /\ state.haveCred = 0 \/ alloc = "none"
    /\ DestructorCalls =
         IF pc \in {"d_ctx", "d_cred", "d_bufs"} THEN <<>>
         ELSE << Call("free", 0, Ptr("spn")) >>
    /\ pc = "idle" => alloc = "none"

\* The destructor has finished after a failed acquisition.
C22_Witness ==
  /\ AcquireFailed /\ pc = "idle" /\ alloc = "none"
  /\ Len(calls) = 2 /\ calls[2] = Call("free", 0, Ptr("spn"))

(***************************************************************************)
(* C25.  What step hands to InitializeSecurityContext.                     *)
(***************************************************************************)
\* The last call was a step that went into auth_sspi_client_step.
StepRan == lastOp = "step" /\ err[1] # "ValueError"

\* C25: the first step of a context (no context handle yet) passes the
\* provider no existing context and no input token, whatever the
\* challenge; every later step passes the context handle and what
\* base64_decode made of the challenge.
C25_StepInput ==
  StepRan =>
    /\ calls # <<>>
    /\ calls[1].fn = "InitializeSecurityContext"
    /\ IF prev.st.haveCtx = 0
       THEN calls[1].h = 0 /\ calls[1].arg = NULL
       ELSE /\ calls[1].h = prev.st.ctx /\ prev.st.ctx \in pv.ctxsIssued
            /\ calls[1].arg = base64_decode(args.challenge.chars)

\* A later step, after a step, hands over the decoded challenge.
C25_Witness ==
  /\ StepRan /\ prev.st.haveCtx = 1
  /\ args.challenge.chars = base64_text(<<9>>)
  /\ calls[1].arg = Ptr(<<9>>) /\ calls[1].h # 0
  /\ prev.op = "step"

(***************************************************************************)
(* C26.  The payload of wrap.                                              *)
(***************************************************************************)
\* The last call was a wrap that reached EncryptMessage.
WrapEncrypted ==
  /\ lastOp = "wrap" /\ Len(calls) >= 2 /\ calls[2].fn = "EncryptMessage"

\* C26: with a user, EncryptMessage gets the bytes 1, 0, 0, 0 followed by
\* the bytes of user, whatever data is; without a user it gets the bytes
\* data decodes to.
C26_WrapPayload ==
  WrapEncrypted =>
    IF args.user # NULL
    THEN LET u == Deref(args.user).chars
         IN /\ Len(WrapPayload) = Len(u) + 4
            /\ SubSeq(WrapPayload, 1, 4) = <<1, 0, 0, 0>>
            /\ SubSeq(WrapPayload, 5, Len(u) + 4) = u
    ELSE base64_decode(args.data.chars) # NULL =>
           WrapPayload = Deref(base64_decode(args.data.chars))

\* A wrap with user "u" and data that is not base64.
C26_Witness ==
  /\ WrapEncrypted /\ args.user # NULL
  /\ base64_decode(args.data.chars) = NULL
  /\ WrapPayload = <<1, 0, 0, 0, 117>>

\* A wrap of decoded data.
C26_WitnessData ==
  /\ WrapEncrypted /\ args.user = NULL /\ WrapPayload = <<9>>

(***************************************************************************)
(* C29.  haveCtx implies haveCred.                                         *)
(***************************************************************************)
\* C29: from the return of auth_sspi_client_init on, between the blocks of
\* destroy included, a struct with a context handle has a credential
\* handle.
C29_CtxImpliesCred ==
  alloc = "live" => (state.haveCtx = 1 => state.haveCred = 1)

\* Inside destroy, after the context handle was released and before the
\* credential handle is.
C29_Witness ==
  /\ alloc = "live" /\ pc = "d_cred" /\ hist.iscOk
  /\ state.haveCtx = 0 /\ state.haveCred = 1
  /\ pv.ctxFrees[state.ctx] = 1

(***************************************************************************)
(* C30.  Step whose name query fails.                                      *)
(***************************************************************************)
\* The last call was a step in which InitializeSecurityContext returned
\* SEC_E_OK and QueryContextAttributes failed.
NameQueryFailed ==
  /\ StepRan
  /\ lastEnv.isc = SEC_E_OK /\ lastEnv.qca # SEC_E_OK

\* C30: when InitializeSecurityContext reports completion and the query
\* of the name fails, step returns Error, the context handle is present,
\* the new token is the response, and username is what it was: NULL
\* unless an earlier step completed.
C30_NameQueryFailed ==
  NameQueryFailed =>
    /\ status = AUTH_GSS_ERROR
    /\ err = KrbErrorOf("QueryContextAttributes")
    /\ state.haveCtx = 1 /\ state.ctx \in pv.ctxs
    /\ state.response =
         IF Len(lastEnv.tok) = 0 \/ ~lastEnv.enc THEN NULL
         ELSE Ptr(base64_text(lastEnv.tok))
    /\ state.username = prev.st.username
    /\ ~hist.completed => state.username = NULL

\* The first step of a context fails in the name query and leaves a token.
C30_Witness ==
  /\ NameQueryFailed /\ prev.st.haveCtx = 0
  /\ state.haveCtx = 1 /\ state.response # NULL /\ state.username = NULL
  /\ status = AUTH_GSS_ERROR

(***************************************************************************)
(* C27.  The interpreter lock around the provider's blocking calls.        *)
(***************************************************************************)
\* In this step thread t makes a blocking provider call:
\* InitializeSecurityContextA in step, DecryptMessage in unwrap,
\* EncryptMessage in wrap.
BlockingCallBy(t) ==
  \/ thr[t].pc = "s_isc" /\ thr'[t].pc = "s_wait"
  \/ /\ thr[t].pc \in {"u_run", "w_run"} /\ thr'[t].pc = "idle"
     /\ \E i \in 1..Len(calls') :
          calls'[i].fn \in {"DecryptMessage", "EncryptMessage"}

\* In this step thread t writes a field of the struct or sets an exception.
WritesBy(t) ==
  /\ thr[t].pc \in {"idle", "s_post", "u_run", "w_run"}
  /\ thr'[t].pc # thr[t].pc

\* C27: a thread makes a blocking provider call only while it does not
\* hold the interpreter lock, and writes the struct or sets an exception
\* only while it holds it.
C27_BlockingCallsUnlocked ==
  [][\A t \in Threads :
       /\ BlockingCallBy(t) => gil # t
       /\ WritesBy(t) => gil' = t \/ gil = t]_vars

(***************************************************************************)
(* C28.  Zeroing of buffers with secret content.                           *)
(***************************************************************************)
\* The secret buffers the last call freed.
SecretFrees ==
  CASE lastOp = "init" -> InitSecretFrees(args, lastEnv)
    [] lastOp = "unwrap" /\ err[1] # "ValueError" ->
         UnwrapSecretFrees(prev.st, args.challenge.chars, lastEnv)
    [] lastOp = "wrap" /\ err[1] # "ValueError" ->
         WrapSecretFrees(prev.st, args.data.chars, CharsOf(args.user),
                         lastEnv)
    [] OTHER -> <<>>

\* C28: every buffer with secret content is overwritten with zeros over
\* its whole length before it is freed, on every exit of init, wrap and
\* unwrap.
C28_SecretsZeroed ==
  \A i \in DOMAIN SecretFrees : SecretFrees[i].zeroed = SecretFrees[i].size

(***************************************************************************)
(* The server side.  The entry points sspi_server_* are those of           *)
(* winkerberos.c; the engine functions auth_sspi_server_* they call follow *)
(* section 4.4 of the specification.  A process holds one context object   *)
(* at a time here, a client one (alloc = "live") or a server one           *)
(* (alloc = "server").                                                     *)
(***************************************************************************)
\* What a server engine function hands back.
ServerOutcome(st, result, e, made) ==
  [st |-> st, status |-> result, err |-> e, calls |-> made]

\* env: acq (the status of AcquireCredentialsHandle).
auth_sspi_server_init(service, env) ==
  LET acq == Call("AcquireCredentialsHandle", 0, NULL)
      s0 == [NoServer.st EXCEPT !.spn = Ptr(ConvertSpn(service))]
  IN IF env.acq # SEC_E_OK
     THEN ServerOutcome(s0, AUTH_GSS_ERROR,
                        KrbErrorOf("AcquireCredentialsHandle"), <<acq>>)
     ELSE ServerOutcome([s0 EXCEPT !.haveCred = 1, !.phase = "Credentialed"],
                        AUTH_GSS_COMPLETE, NoError, <<acq>>)

\* env: acc (the status of AcceptSecurityContext), tok (its output token),
\* name (the client name the provider reports on completion).
auth_sspi_server_step(st, challenge, env) ==
  LET s0 == FreeResponse(st)
      acc == Call("AcceptSecurityContext", 0, base64_decode(challenge))
  IN IF IscFailed(env.acc)
     THEN ServerOutcome([s0 EXCEPT !.phase = "Failed"], AUTH_GSS_ERROR,
                        KrbErrorOf("AcceptSecurityContext"), <<acc>>)
     ELSE LET s1 == [s0 EXCEPT !.haveCtx = 1,
                               !.response = Ptr(base64_text(env.tok))]
          IN IF env.acc = SEC_E_OK
             THEN ServerOutcome([s1 EXCEPT !.phase = "Established",
                                           !.username = Ptr(env.name)],
                                AUTH_GSS_COMPLETE, NoError, <<acc>>)
             ELSE ServerOutcome([s1 EXCEPT !.phase = "Negotiating"],
                                AUTH_GSS_CONTINUE, NoError, <<acc>>)

\* Needs an established context: before that it fails without a provider
\* call.  env: ret (the status of ImpersonateSecurityContext).
auth_sspi_server_impersonate(st, env) ==
  LET imp == Call("ImpersonateSecurityContext", 0, NULL)
  IN IF st.phase # "Established"
     THEN ServerOutcome(st, AUTH_GSS_ERROR, UninitializedContext, <<>>)
     ELSE IF env.ret # SEC_E_OK
     THEN ServerOutcome(st, AUTH_GSS_ERROR,
                        KrbErrorOf("ImpersonateSecurityContext"), <<imp>>)
     ELSE ServerOutcome(st, AUTH_GSS_COMPLETE, NoError, <<imp>>)

\* As auth_sspi_server_impersonate.  env: ret (the status of
\* RevertSecurityContext).
auth_sspi_server_revert(st, env) ==
  LET rev == Call("RevertSecurityContext", 0, NULL)
  IN IF st.phase # "Established"
     THEN ServerOutcome(st, AUTH_GSS_ERROR, UninitializedContext, <<>>)
     ELSE IF env.ret # SEC_E_OK
     THEN ServerOutcome(st, AUTH_GSS_ERROR,
                        KrbErrorOf("RevertSecurityContext"), <<rev>>)
     ELSE ServerOutcome(st, AUTH_GSS_COMPLETE, NoError, <<rev>>)

\* if (result == AUTH_GSS_ERROR) return NULL;
\* return Py_BuildValue("i", result);
ReturnsStatusOrNull(o) ==
  [st |-> o.st, status |-> o.status, err |-> o.err, calls |-> o.calls,
   ret |-> IF o.status = AUTH_GSS_ERROR THEN "NULL" ELSE o.status]

\* return Py_BuildValue("i", result);
ReturnsStatus(o) ==
  [st |-> o.st, status |-> o.status, err |-> o.err, calls |-> o.calls,
   ret |-> o.status]

\* authGSSServerInit.  env: malloc (whether the struct can be allocated).
\* On AUTH_GSS_ERROR the capsule is dropped, and destroy_sspi_server frees
\* the struct.
sspi_server_init(service, env) ==
  IF ~env.malloc
  THEN ReturnsStatusOrNull(ServerOutcome(NoServer.st, AUTH_GSS_ERROR,
                                         MemoryError, <<>>))
  ELSE LET o == auth_sspi_server_init(service, env)
       IN ReturnsStatusOrNull(
            IF o.status = AUTH_GSS_ERROR
            THEN [o EXCEPT !.st = NoServer.st] ELSE o)

\* authGSSServerStep
sspi_server_step(st, challenge, env) ==
  IF _string_too_long("challenge", strlen(challenge))
  THEN ReturnsStatusOrNull(ServerOutcome(st, AUTH_GSS_ERROR,
                                         ValueTooLarge("challenge"), <<>>))
  ELSE ReturnsStatusOrNull(auth_sspi_server_step(st, challenge.chars, env))

\* authGSSServerClean does nothing and returns AUTH_GSS_COMPLETE.
sspi_server_clean(st) ==
  ReturnsStatus(ServerOutcome(st, AUTH_GSS_COMPLETE, NoError, <<>>))

\* authGSSServerImpersonate
sspi_server_impersonate(st, env) ==
  ReturnsStatus(auth_sspi_server_impersonate(st, env))

\* authGSSServerRevert
sspi_server_revert(st, env) ==
  ReturnsStatus(auth_sspi_server_revert(st, env))

\* The return of a call on the server context object.
ServerReturned(op, o) ==
  /\ srv' = [st |-> o.st, op |-> op, status |-> o.status, err |-> o.err,
             ret |-> o.ret, calls |-> o.calls]
  /\ nops' = nops + 1
  /\ UNCHANGED << state, pv, pc, dealloc, lastOp, status, err, calls,
                  lastEnv, hist, prev, args, thr, gil >>

ServerInit ==
  /\ alloc = "none" /\ pc = "idle" /\ nops < MaxOps /\ nctx < MaxContexts
  /\ \E env \in { [malloc |-> TRUE, acq |-> SEC_E_OK],
                  [malloc |-> TRUE, acq |-> SEC_E_FAILURE],
                  [malloc |-> FALSE, acq |-> SEC_E_OK] } :
       LET o == sspi_server_init(<<"s","@","h">>, env)
       IN /\ ServerReturned("init", o)
          /\ alloc' = IF o.ret = "NULL" THEN "none" ELSE "server"
          /\ nctx' = IF env.malloc THEN nctx + 1 ELSE nctx

ServerStep ==
  /\ alloc = "server" /\ nops < MaxOps
  /\ \E ch \in WideTexts,
        acc \in {SEC_E_OK, SEC_I_CONTINUE_NEEDED, SEC_E_FAILURE} :
       ServerReturned("step",
                      sspi_server_step(srv.st, ch,
                                       [acc |-> acc, tok |-> <<7>>,
                                        name |-> <<"u">>]))
  /\ UNCHANGED << alloc, nctx >>

ServerClean ==
  /\ alloc = "server" /\ nops < MaxOps
  /\ ServerReturned("clean", sspi_server_clean(srv.st))
  /\ UNCHANGED << alloc, nctx >>

ServerImpersonate ==
  /\ alloc = "server" /\ nops < MaxOps
  /\ \E r \in {SEC_E_OK, SEC_E_FAILURE} :
       ServerReturned("impersonate",
                      sspi_server_impersonate(srv.st, [ret |-> r]))
  /\ UNCHANGED << alloc, nctx >>

ServerRevert ==
  /\ alloc = "server" /\ nops < MaxOps
  /\ \E r \in {SEC_E_OK, SEC_E_FAILURE} :
       ServerReturned("revert", sspi_server_revert(srv.st, [ret |-> r]))
  /\ UNCHANGED << alloc, nctx >>

\* destroy_sspi_server, the capsule destructor, run when the context
\* object is reclaimed: the struct is destroyed and freed.
DestroyServer ==
  /\ alloc = "server" /\ nops < MaxOps
  /\ ServerReturned("dealloc",
                    ReturnsStatus(ServerOutcome(NoServer.st, "void",
                                                NoError, <<>>)))
  /\ alloc' = "none"
  /\ UNCHANGED nctx

ServerNext ==
  \/ ClientInit
  \/ ClientStepWide
  \/ ClientUnwrapWide
  \/ ClientWrapWide
  \/ ClientClean
  \/ DestroyClient
  \/ DestroyBlock
  \/ FreeState
  \/ ServerInit
  \/ ServerStep
  \/ ServerClean
  \/ ServerImpersonate
  \/ ServerRevert
  \/ DestroyServer

ServerSpec == Init /\ [][ServerNext]_vars

(***************************************************************************)
(* C23: authGSSClientClean and authGSSServerClean do nothing.              *)
(***************************************************************************)
\* A clean call on the client context object returns in this step.
ClientCleanReturns == lastOp' = "clean" /\ nops' = nops + 1

\* A clean call on the server context object returns in this step.
ServerCleanReturns == srv'.op = "clean" /\ nops' = nops + 1

\* C23: a clean call, client or server, returns Complete, makes no
\* provider call, releases no buffer and no handle and changes no field of
\* the struct; the context object is as usable after it as it was before.
C23_CleanIsNoOp ==
  [][/\ ClientCleanReturns =>
          /\ status' = AUTH_GSS_COMPLETE /\ err' = NoError /\ calls' = <<>>
          /\ state' = state /\ pv' = pv
          /\ alloc' = alloc /\ pc' = pc /\ hist' = hist /\ srv' = srv
     /\ ServerCleanReturns =>
          /\ srv'.status = AUTH_GSS_COMPLETE /\ srv'.ret = AUTH_GSS_COMPLETE
          /\ srv'.err = NoError /\ srv'.calls = <<>>
          /\ srv'.st = srv.st
          /\ alloc' = alloc /\ pc' = pc /\ state' = state /\ pv' = pv]_vars

\* A step that followed a clean on the same client context went on with
\* the handshake.
C23_Witness ==
  /\ lastOp = "step" /\ prev.op = "clean" /\ prev.status = AUTH_GSS_COMPLETE
  /\ status = AUTH_GSS_CONTINUE /\ state.haveCtx = 1

\* A clean on a server context that holds a credential and a response.
C23_WitnessServer ==
  /\ srv.op = "clean" /\ alloc = "server"
  /\ srv.st.haveCtx = 1 /\ srv.st.response # NULL

(***************************************************************************)
(* C24: authGSSServerImpersonate and authGSSServerRevert.                  *)
(***************************************************************************)
\* C24: impersonate and revert on a server context whose handshake has not
\* completed fail with the uninitialized-context error without a provider
\* call, and a failure of either is raised as an error, never handed back
\* as a status.
C24_ImpersonateNeedsEstablished ==
  srv.op \in {"impersonate", "revert"} =>
    /\ srv.st.phase # "Established" =>
         /\ srv.status = AUTH_GSS_ERROR /\ srv.err = UninitializedContext
         /\ srv.calls = <<>>
    /\ srv.status = AUTH_GSS_ERROR => srv.ret = "NULL"

(***************************************************************************)
(* C31: what wrap and unwrap change.                                       *)
(***************************************************************************)
\* Every field of the struct but response is as the last call found it.
OnlyResponseChanged ==
  /\ state.cred = prev.st.cred /\ state.haveCred = prev.st.haveCred
  /\ state.ctx = prev.st.ctx /\ state.haveCtx = prev.st.haveCtx
  /\ state.spn = prev.st.spn /\ state.flags = prev.st.flags
  /\ state.username = prev.st.username

\* C31 as stated: wrap and unwrap leave the credential handle, the context
\* handle, the target name, the flags and the username unchanged on every
\* path, and after a wrap or unwrap that returns Error last_response is
\* none.
C31_OnlyResponse ==
  lastOp \in {"wrap", "unwrap"} =>
    /\ OnlyResponseChanged
    /\ status = AUTH_GSS_ERROR => state.response = NULL

\* C31 amended: wrap and unwrap leave the credential handle, the context
\* handle, the target name, the flags and the username unchanged on every
\* path.  A call refused for an argument too long for a ULONG changes
\* nothing, last_response included; after every other wrap or unwrap that
\* returns Error last_response is none.
C31_OnlyResponseUnlessRefused ==
  lastOp \in {"wrap", "unwrap"} =>
    /\ OnlyResponseChanged
    /\ err[1] = "ValueError" =>
         status = AUTH_GSS_ERROR /\ state = prev.st /\ calls = <<>>
    /\ (status = AUTH_GSS_ERROR /\ err[1] # "ValueError") =>
         state.response = NULL

\* An unwrap that found a response and failed in the provider.
C31_Witness ==
  /\ lastOp = "unwrap" /\ status = AUTH_GSS_ERROR /\ err[1] = "KrbError"
  /\ calls # <<>> /\ prev.st.response # NULL /\ state.response = NULL

\* A wrap that found a response and was refused for its argument.
C31_WitnessRefused ==
  /\ lastOp = "wrap" /\ status = AUTH_GSS_ERROR /\ err[1] = "ValueError"
  /\ prev.st.response # NULL /\ state.response = prev.st.response

(***************************************************************************)
(* C32: the working buffer of wrap.                                        *)
(***************************************************************************)
\* The last call was a wrap that reached EncryptMessage.
WrapReachedEncrypt ==
  lastOp = "wrap" /\ Len(calls) = 2 /\ calls[2].fn = "EncryptMessage"

\* The bytes of inbuf the buffer b covers.
BytesOf(b) == { b.off + i : i \in 0..(b.cb - 1) }

\* C32: wrap allocates inbuf with trailer size + payload length + block
\* size bytes; the trailer buffer starts at 0, the payload buffer at the
\* trailer size and the padding buffer at trailer size + payload length;
\* the three follow one another without a gap, share no byte and lie
\* inside inbuf.  The response holds exactly as many bytes as the provider
\* left in the three buffers, no more than inbuf has when the provider
\* enlarged no count.
C32_WrapBuffers ==
  WrapReachedEncrypt =>
    LET a == Deref(calls[2].arg)
        T == lastEnv.sizes.cbSecurityTrailer
        L == Len(a.data)
        B == lastEnv.sizes.cbBlockSize
        b == a.bufs
    IN /\ a.inbuf = T + L + B
       /\ b[1].off = 0 /\ b[1].cb = T
       /\ b[2].off = T /\ b[2].cb = L
       /\ b[3].off = T + L /\ b[3].cb = B
       /\ b[1].off + b[1].cb = b[2].off /\ b[2].off + b[2].cb = b[3].off
       /\ \A i, j \in 1..3 : i # j => BytesOf(b[i]) \cap BytesOf(b[j]) = {}
       /\ \A i \in 1..3 : BytesOf(b[i]) \subseteq 0..(a.inbuf - 1)
       /\ (status = AUTH_GSS_COMPLETE /\ lastEnv.enc) =>
            /\ Len(ResponseBytes(state)) =
                 Len(lastEnv.trailer) + L + Len(lastEnv.padding)
            /\ (Len(lastEnv.trailer) <= T /\ Len(lastEnv.padding) <= B) =>
                 Len(ResponseBytes(state)) <= a.inbuf

\* A wrap of a non-empty payload, with a trailer and a block size that are
\* not zero, where the provider left the padding buffer empty.
C32_Witness ==
  /\ WrapReachedEncrypt /\ status = AUTH_GSS_COMPLETE /\ lastEnv.enc
  /\ Len(Deref(calls[2].arg).data) > 0
  /\ lastEnv.sizes.cbSecurityTrailer > 0 /\ lastEnv.sizes.cbBlockSize > 0
  /\ Len(lastEnv.padding) = 0
  /\ Len(ResponseBytes(state)) < Deref(calls[2].arg).inbuf

(***************************************************************************)
(* C33: the lengths sspi_client_init zeroes its secret buffers with.       *)
(***************************************************************************)
\* a <= b for two lengths.
SizeLeq(a, b) == a.hi < b.hi \/ (a.hi = b.hi /\ a.lo <= b.lo)

\* The password cut out of the principal is the one held at done.
PasswordDerived ==
  /\ lastOp = "init" /\ ~InitArgTooLong(args)
  /\ UsesPrincipal(args.user, args.principal)
  /\ PasswordAtDone(args, lastEnv).buf # NULL

\* The characters of the password held at done: those of the argument, or
\* of the second token of the principal, unescaped once both UrlUnescapeW
\* calls succeeded.
PasswordLengthAtDone ==
  LET pw == PasswordAtDone(args, lastEnv)
  IN IF PasswordDerived /\ lastEnv.esc = "S_OK"
     THEN strlen(UrlUnescapeW(Deref(pw.buf)))
     ELSE LengthOf(pw.buf)

\* C33: whenever sspi_client_init zeroes a password or principal buffer,
\* the length it zeroes is that of the buffer it holds then: not more than
\* the buffer was allocated for (its characters and the terminator) and
\* not less than the secret in it, also on the error exits taken after
\* the password was replaced by the one cut out of the principal.
C33_ZeroedLengthMatches ==
  lastOp = "init" =>
    LET frees == InitSecretFrees(args, lastEnv)
        pw == PasswordAtDone(args, lastEnv)
    IN /\ \A i \in DOMAIN frees :
            SizeLeq(frees[i].zeroed, SizeAdd(frees[i].size, 1))
       /\ \A i \in DOMAIN frees :
            frees[i].buf = "principal" => frees[i].zeroed = frees[i].size
       /\ pw.buf # NULL => SizeLeq(PasswordLengthAtDone, pw.plen)

(***************************************************************************)
(* C34: a principal with an empty user or password part.                   *)
(***************************************************************************)
\* The last call was an init without user whose principal has nothing in
\* front of its first ':' or nothing behind it.
EmptyPart ==
  /\ InitByPrincipal /\ HasChar(PrincipalChars, ":")
  /\ \/ FirstIndex(PrincipalChars, ":") = 1
     \/ FirstIndex(PrincipalChars, ":") = Len(PrincipalChars)

\* The last init failed before any provider call and made no context.
InitRefused ==
  /\ lastOp = "init" /\ status = AUTH_GSS_ERROR /\ calls = <<>>
  /\ alloc = "none"

\* C34 as stated: init with no user and a principal whose user part or
\* password part is empty fails before any provider call and returns no
\* context.
C34_EmptyPartRejected == EmptyPart => InitRefused

\* C34 amended: init with no user and a principal that contains ':' and
\* has fewer than two non-empty pieces between its ':' characters (":p",
\* "a:") fails before any provider call and returns no context.  A
\* principal with an empty user part and two or more non-empty pieces
\* (":p:q") is not refused: the empty piece is skipped and the credentials
\* are acquired with the first non-empty piece as user and the second as
\* password.
C34_TooFewPiecesRejected ==
  /\ (InitByPrincipal /\ HasChar(PrincipalChars, ":")
      /\ Cardinality(PieceStarts(PrincipalChars)) < 2) =>
       InitRefused /\ err[1] \in {"MemoryError", "ValueError"}
  /\ (EmptyPart /\ Cardinality(PieceStarts(PrincipalChars)) >= 2
      /\ InitAllocsOk /\ ~InitArgTooLong(args)) =>
       /\ InitReachedProvider
       /\ Identity.User = Ptr(UrlUnescapeW(Text(Piece(PrincipalChars, 1))))
       /\ Identity.Password =
            Ptr(UrlUnescapeW(Text(Piece(PrincipalChars, 2))))

\* Init with principal "a:" was refused with MemoryError.
C34_Witness ==
  /\ InitRefused /\ EmptyPart /\ PrincipalChars = <<"a", ":">>
  /\ err = MemoryError

\* Init with principal ":p:q" reached the provider with user "p" and
\* password "q".
C34_WitnessAccepted ==
  /\ EmptyPart /\ InitReachedProvider
  /\ PrincipalChars = <<":","p",":","q">>
  /\ Identity.User = Ptr(Text(<<"p">>))
  /\ Identity.Password = Ptr(Text(<<"q">>))

====
